---- MODULE Spec2Model ----
(***************************************************************************)
(* Extension Storage Core of the ValueTracker plugin.                      *)
(*                                                                         *)
(* src/src/managers/DatabaseManager.ts holds two implementations of the    *)
(* Store (class DatabaseManager):                                          *)
(*   "async"  lines 15-386, sql.js: an in-memory database, every method an *)
(*            async function, the file written by flushToDisk;             *)
(*   "sync"   lines 399-907, better-sqlite3: synchronous methods, compound *)
(*            operations wrapped in db.transaction.                        *)
(* The variable engine says which one a behaviour runs.                    *)
(*                                                                         *)
(* SQL statements are modelled by their SQL meaning.  A timestamp          *)
(* (new Date().toISOString()) is the value of the clock as a number: ISO   *)
(* strings order as the instants they denote.                              *)
(***************************************************************************)
EXTENDS Integers, Sequences, FiniteSets, TLC

\* ------------------------------------------------------------------ bounds
MaxClock == 2
MaxCalls == 2

\* ------------------------------------------------------- input universes
Tasks   == {"t1", "t2"}
CharIds == {"c1", "c2"}
InstIds == {"i1", "i2"}
Keys    == {"k1"}

\* A JavaScript undefined argument, and SQL NULL in a TEXT column.
JsUndefined == "<undefined>"
SqlNull     == "<NULL>"
Names       == {"n1", "n2"}
NameArgs    == Names \cup {"", JsUndefined}

\* ------------------------------------------------------------ the tables
\* A database: the three tables, each a function from the primary keys
\* present to the row's other columns.
EmptyDb == [characters |-> << >>, instances |-> << >>, data |-> << >>]

HasCharacter(d, id) == id \in DOMAIN d.characters
HasInstance(d, id)  == id \in DOMAIN d.instances
HasData(d, iid, k)  == <<iid, k>> \in DOMAIN d.data

\* f with the keys in S removed
Without(f, S) == [x \in (DOMAIN f) \ S |-> f[x]]
\* f with key x set to v (inserted or overwritten)
With(f, x, v) == [y \in (DOMAIN f) \cup {x} |-> IF y = x THEN v ELSE f[y]]

\* COALESCE(?, col)
Coalesce(arg, col) == IF arg = SqlNull THEN col ELSE arg

\* The foreign keys of the schema are enforced by better-sqlite3, which is
\* built with foreign keys on; sql.js leaves them off and the code never
\* issues PRAGMA foreign_keys.
ForeignKeys(eng) == eng = "sync"

\* ------------------------------------------------------- SQL statements
\* A statement is a record [sql, id, cid, key, name, value, now]; Exec gives
\* [ok, db, changes]: ok = FALSE when the engine rejects it (constraint).
Stmt(sql, id, cid, key, name, value, now) ==
    [sql |-> sql, id |-> id, cid |-> cid, key |-> key, name |-> name,
     value |-> value, now |-> now]

Done(d, n)  == [ok |-> TRUE, db |-> d, changes |-> n]
Rejected(d) == [ok |-> FALSE, db |-> d, changes |-> 0]

\* INSERT INTO characters (id, name, created_at, updated_at) VALUES (?,?,?,?)
InsertCharacter(d, s) ==
    IF HasCharacter(d, s.id) THEN Rejected(d)
    ELSE Done([d EXCEPT !.characters = With(@, s.id,
                 [name |-> s.name, createdAt |-> s.now, updatedAt |-> s.now])], 1)

\* An update that rewrites the whole row, as INSERT OR REPLACE would: the
\* creation time is lost.
UpdateCharacterAnew(d, s) ==
    IF ~HasCharacter(d, s.id) THEN Done(d, 0)
    ELSE Done([d EXCEPT !.characters[s.id] =
                 [name |-> Coalesce(s.name, @.name),
                  createdAt |-> s.now, updatedAt |-> s.now]], 1)

\* UPDATE characters SET name = COALESCE(?, name), updated_at = ? WHERE id = ?
UpdateCharacter(d, s) ==
    IF ~HasCharacter(d, s.id) THEN Done(d, 0)
    ELSE Done([d EXCEPT !.characters[s.id] =
                 [@ EXCEPT !.name = Coalesce(s.name, @), !.updatedAt = s.now]], 1)

\* INSERT INTO instances (id, character_id, name, created_at, updated_at)
InsertInstance(d, s, fk) ==
    IF HasInstance(d, s.id) \/ (fk /\ ~HasCharacter(d, s.cid)) THEN Rejected(d)
    ELSE Done([d EXCEPT !.instances = With(@, s.id,
                 [characterId |-> s.cid, name |-> s.name,
                  createdAt |-> s.now, updatedAt |-> s.now])], 1)

\* UPDATE instances SET name = COALESCE(?, name),
\*        character_id = COALESCE(?, character_id), updated_at = ? WHERE id = ?
UpdateInstance(d, s, fk) ==
    IF ~HasInstance(d, s.id) THEN Done(d, 0)
    ELSE IF fk /\ ~HasCharacter(d, Coalesce(s.cid, d.instances[s.id].characterId))
    THEN Rejected(d)
    ELSE Done([d EXCEPT !.instances[s.id] =
                 [@ EXCEPT !.name = Coalesce(s.name, @),
                           !.characterId = Coalesce(s.cid, @),
                           !.updatedAt = s.now]], 1)

\* An insert that keeps the row already there, as INSERT OR IGNORE would.
ReplaceDataIgnore(d, s, fk) ==
    IF fk /\ ~HasInstance(d, s.id) THEN Rejected(d)
    ELSE IF HasData(d, s.id, s.key) THEN Done(d, 0)
    ELSE Done([d EXCEPT !.data = With(@, <<s.id, s.key>>,
                 [value |-> s.value, updatedAt |-> s.now])], 1)

\* INSERT OR REPLACE INTO data (instance_id, key, value, updated_at)
ReplaceData(d, s, fk) ==
    IF fk /\ ~HasInstance(d, s.id) THEN Rejected(d)
    ELSE Done([d EXCEPT !.data = With(@, <<s.id, s.key>>,
                 [value |-> s.value, updatedAt |-> s.now])], 1)

DataKeysOf(d, iid) == {p \in DOMAIN d.data : p[1] = iid}
InstancesOf(d, cid) == {i \in DOMAIN d.instances : d.instances[i].characterId = cid}

\* DELETE FROM data WHERE instance_id = ?
DeleteDataOfInstance(d, s) ==
    Done([d EXCEPT !.data = Without(@, DataKeysOf(d, s.id))],
         Cardinality(DataKeysOf(d, s.id)))

\* DELETE FROM data WHERE instance_id = ? AND key = ?
DeleteDataRow(d, s) ==
    IF HasData(d, s.id, s.key)
    THEN Done([d EXCEPT !.data = Without(@, {<<s.id, s.key>>})], 1)
    ELSE Done(d, 0)

\* ON DELETE CASCADE of data.instance_id, when foreign keys are enforced
CascadeData(d, fk) ==
    IF fk THEN [d EXCEPT !.data =
                  Without(@, {p \in DOMAIN d.data : ~HasInstance(d, p[1])})]
    ELSE d

\* DELETE FROM instances WHERE id = ?
DeleteInstanceRow(d, s, fk) ==
    IF HasInstance(d, s.id)
    THEN Done(CascadeData([d EXCEPT !.instances = Without(@, {s.id})], fk), 1)
    ELSE Done(d, 0)

\* DELETE FROM instances WHERE character_id = ?
DeleteInstancesOfCharacter(d, s, fk) ==
    Done(CascadeData([d EXCEPT !.instances = Without(@, InstancesOf(d, s.cid))], fk),
         Cardinality(InstancesOf(d, s.cid)))

\* ON DELETE CASCADE of instances.character_id, when foreign keys are enforced
CascadeInstances(d, fk) ==
    IF fk THEN CascadeData([d EXCEPT !.instances =
                  Without(@, {i \in DOMAIN d.instances :
                                 ~HasCharacter(d, d.instances[i].characterId)})], fk)
    ELSE d

\* DELETE FROM characters WHERE id = ?
DeleteCharacterRow(d, s, fk) ==
    IF HasCharacter(d, s.id)
    THEN Done(CascadeInstances([d EXCEPT !.characters = Without(@, {s.id})], fk), 1)
    ELSE Done(d, 0)

Exec(d, s, fk) ==
    CASE s.sql = "INSERT characters" -> InsertCharacter(d, s)
      [] s.sql = "UPDATE characters" -> UpdateCharacter(d, s)
      [] s.sql = "INSERT instances"  -> InsertInstance(d, s, fk)
      [] s.sql = "UPDATE instances"  -> UpdateInstance(d, s, fk)
      [] s.sql = "REPLACE data"      -> ReplaceData(d, s, fk)
      [] s.sql = "DELETE data WHERE instance_id"     -> DeleteDataOfInstance(d, s)
      [] s.sql = "DELETE data WHERE instance_id key" -> DeleteDataRow(d, s)
      [] s.sql = "DELETE instances WHERE id"           -> DeleteInstanceRow(d, s, fk)
      [] s.sql = "DELETE instances WHERE character_id" -> DeleteInstancesOfCharacter(d, s, fk)
      [] s.sql = "DELETE characters" -> DeleteCharacterRow(d, s, fk)

\* The statements of stmts run in order on d.  fault = k > 0 makes the k-th
\* statement fail in the engine (an I/O error, a full disk); a rejected or
\* failed statement throws, leaving the writes made before it in place.
RECURSIVE RunFrom(_, _, _, _, _)
RunFrom(r, stmts, n, fault, fk) ==
    IF n > Len(stmts) \/ ~r.ok THEN r
    ELSE IF fault = n THEN Rejected(r.db)
    ELSE RunFrom(Exec(r.db, stmts[n], fk), stmts, n + 1, fault, fk)

RunStatements(d, stmts, fault, fk) == RunFrom(Done(d, 0), stmts, 1, fault, fk)

\* ---------------------------------------------------- JSON value codec
\* A text is a sequence of characters.  A JavaScript value is
\* [type, text]: for a string, text is its content; for every other type,
\* text is the value's canonical JSON text (what JSON.stringify gives and
\* what String gives for a number or a boolean).
Chr(c)   == <<c>>
Drop(t, n) == SubSeq(t, n + 1, Len(t))
IsPrefix(p, t) == Len(p) <= Len(t) /\ SubSeq(t, 1, Len(p)) = p

JsString(s)  == [type |-> "string",  text |-> s]
JsNumber(s)  == [type |-> "number",  text |-> s]
JsBoolean(s) == [type |-> "boolean", text |-> s]
JsNull       == [type |-> "null",    text |-> <<"n", "u", "l", "l">>]
JsArray(s)   == [type |-> "array",   text |-> s]
JsObject(s)  == [type |-> "object",  text |-> s]

\* typeof value === 'object'
TypeofObject(v) == v.type \in {"null", "array", "object"}

Digits == {"0", "1", "2", "3", "4", "5", "6", "7", "8", "9"}
ParseOk(rest) == [ok |-> TRUE, rest |-> rest]
ParseFail     == [ok |-> FALSE, rest |-> << >>]

RECURSIVE SkipDigits(_)
SkipDigits(t) == IF t # << >> /\ Head(t) \in Digits THEN SkipDigits(Tail(t)) ELSE t

\* the JSON grammar's integer numbers: -? (0 | [1-9][0-9]*)
ParseNumber(t) ==
    LET u == IF t # << >> /\ Head(t) = "-" THEN Tail(t) ELSE t IN
    IF u = << >> \/ Head(u) \notin Digits THEN ParseFail
    ELSE IF Head(u) = "0" THEN ParseOk(Tail(u))
    ELSE ParseOk(SkipDigits(u))

\* a JSON string without escapes: " chars "
RECURSIVE SkipChars(_)
SkipChars(t) ==
    IF t = << >> \/ Head(t) = "\\" THEN ParseFail
    ELSE IF Head(t) = "\"" THEN ParseOk(Tail(t))
    ELSE SkipChars(Tail(t))

ParseString(t) ==
    IF t # << >> /\ Head(t) = "\"" THEN SkipChars(Tail(t)) ELSE ParseFail

RECURSIVE ParseValue(_), ParseElements(_), ParseMembers(_)
ParseValue(t) ==
    IF t = << >> THEN ParseFail
    ELSE CASE IsPrefix(<<"n", "u", "l", "l">>, t) -> ParseOk(Drop(t, 4))
           [] IsPrefix(<<"t", "r", "u", "e">>, t) -> ParseOk(Drop(t, 4))
           [] IsPrefix(<<"f", "a", "l", "s", "e">>, t) -> ParseOk(Drop(t, 5))
           [] Head(t) = "\"" -> ParseString(t)
           [] Head(t) = "[" ->
                IF Len(t) >= 2 /\ t[2] = "]" THEN ParseOk(Drop(t, 2))
                ELSE ParseElements(Tail(t))
           [] Head(t) = "{" ->
                IF Len(t) >= 2 /\ t[2] = "}" THEN ParseOk(Drop(t, 2))
                ELSE ParseMembers(Tail(t))
           [] Head(t) \in Digits \cup {"-"} -> ParseNumber(t)
           [] OTHER -> ParseFail

ParseElements(t) ==
    LET v == ParseValue(t) IN
    IF ~v.ok \/ v.rest = << >> THEN ParseFail
    ELSE IF Head(v.rest) = "]" THEN ParseOk(Tail(v.rest))
    ELSE IF Head(v.rest) = "," THEN ParseElements(Tail(v.rest))
    ELSE ParseFail

ParseMembers(t) ==
    LET k == ParseString(t) IN
    IF ~k.ok \/ k.rest = << >> \/ Head(k.rest) # ":" THEN ParseFail
    ELSE LET v == ParseValue(Tail(k.rest)) IN
         IF ~v.ok \/ v.rest = << >> THEN ParseFail
         ELSE IF Head(v.rest) = "}" THEN ParseOk(Tail(v.rest))
         ELSE IF Head(v.rest) = "," THEN ParseMembers(Tail(v.rest))
         ELSE ParseFail

\* JSON.parse(text) succeeds
JsonValid(t) == LET r == ParseValue(t) IN r.ok /\ r.rest = << >>

\* the value JSON.parse(text) returns, for a valid text
JsonParse(t) ==
    CASE Head(t) = "\"" -> JsString(SubSeq(t, 2, Len(t) - 1))
      [] Head(t) = "["  -> JsArray(t)
      [] Head(t) = "{"  -> JsObject(t)
      [] Head(t) = "n"  -> JsNull
      [] Head(t) \in {"t", "f"} -> JsBoolean(t)
      [] OTHER -> JsNumber(t)

\* JSON.stringify of null, an array or an object: its canonical JSON text
JsonStringify(v) == v.text
\* String(value) of a string, a number or a boolean
StringOf(v) == v.text

\* typeof value === 'object' ? JSON.stringify(value) : String(value)
Encode(v) == IF TypeofObject(v) THEN JsonStringify(v) ELSE StringOf(v)

\* try { JSON.parse(value) } catch { value }
Decode(t) == IF JsonValid(t) THEN JsonParse(t) ELSE JsString(t)

\* ------------------------------------------------------------- results
\* What a call gives its caller: a thrown error or a returned value.  A
\* nullable result (row | null, value | undefined) is the set of at most
\* one element; a list of rows is the set of its rows.
Throw(msg)  == [tag |-> "throw", val |-> msg]
Return(v)   == [tag |-> "return", val |-> v]
NoResult    == [tag |-> "none", val |-> ""]

ErrClosed       == "Database is closed"
ErrNotOpen      == "The database connection is not open"
ErrCharacterId  == "Character ID is required"
ErrInstanceIds  == "Instance ID and character ID are required"
ErrInstanceId   == "Instance ID is required"
ErrInstanceKey  == "Instance ID and key are required"
ErrEngine       == "SqliteError"
ErrWriteFile    == "writeFile failed"
ErrNoCharacter  == "Failed to retrieve character after upsert"
ErrNoInstance   == "Failed to retrieve instance after upsert"

\* A Store: its tables and whether the native handle is open.
Store(d, o) == [db |-> d, open |-> o]
\* The outcome of a whole synchronous call.
Outcome(d, o, r) == [db |-> d, open |-> o, res |-> r]

\* ---------------------------------------------------------------- reads
CharacterRow(d, id) ==
    [id |-> id, name |-> d.characters[id].name,
     createdAt |-> d.characters[id].createdAt,
     updatedAt |-> d.characters[id].updatedAt]

InstanceRow(d, id) ==
    [id |-> id, characterId |-> d.instances[id].characterId,
     name |-> d.instances[id].name,
     createdAt |-> d.instances[id].createdAt,
     updatedAt |-> d.instances[id].updatedAt]

\* SELECT ... FROM characters WHERE id = ?    (row || null)
SelectCharacter(d, id) == IF HasCharacter(d, id) THEN {CharacterRow(d, id)} ELSE {}
\* SELECT ... FROM characters
SelectAllCharacters(d) == {CharacterRow(d, id) : id \in DOMAIN d.characters}
\* SELECT ... FROM instances WHERE id = ?
SelectInstance(d, id) == IF HasInstance(d, id) THEN {InstanceRow(d, id)} ELSE {}
\* SELECT ... FROM instances WHERE character_id = ?
SelectInstancesByCharacter(d, cid) == {InstanceRow(d, i) : i \in InstancesOf(d, cid)}
\* SELECT key, value FROM data WHERE instance_id = ?, each value decoded
SelectData(d, iid) ==
    [k \in {p[2] : p \in DataKeysOf(d, iid)} |-> Decode(d.data[<<iid, k>>].value)]

FullInstanceOf(d, row) == [instance |-> row, data |-> SelectData(d, row.id)]

\* ----------------------------------------- the synchronous Store (sync)
\* db.transaction(fn)(): the statements as one unit; a statement that
\* throws rolls every write of the unit back.
Rollback(d, r) == IF r.ok THEN r ELSE Rejected(d)
Transaction(d, stmts, fault, fk) == Rollback(d, RunStatements(d, stmts, fault, fk))

\* What a writing method gives once its statements have run with result
\* r: the engine's error thrown on, or its value.
Thrown_sync(st, r) == Outcome(r.db, st.open, Throw(ErrEngine))
UpsertedCharacter_sync(st, a, r) ==
    IF r.ok THEN Outcome(r.db, st.open, Return(SelectCharacter(r.db, a.id)))
    ELSE Thrown_sync(st, r)
UpsertedInstance_sync(st, a, r) ==
    IF r.ok THEN Outcome(r.db, st.open, Return(SelectInstance(r.db, a.id)))
    ELSE Thrown_sync(st, r)
Changed_sync(st, r) ==
    IF r.ok THEN Outcome(r.db, st.open, Return(r.changes > 0))
    ELSE Thrown_sync(st, r)
Written_sync(st, r) ==
    IF r.ok THEN Outcome(r.db, st.open, Return(TRUE))
    ELSE Thrown_sync(st, r)

\* undefined binds as NULL
Bind(arg) == IF arg = JsUndefined THEN SqlNull ELSE arg

\* a set of ids as a sequence, in some fixed order (the order of the rows)
RECURSIVE SeqOf(_)
SeqOf(S) == IF S = {} THEN << >>
            ELSE LET x == CHOOSE y \in S : TRUE IN <<x>> \o SeqOf(S \ {x})

\* An upsert that does not look at the id it is given.
upsertCharacterAnyId_sync(st, a, now, fault) ==
    IF ~st.open THEN Outcome(st.db, st.open, Throw(ErrClosed))
    ELSE LET stmt == IF SelectCharacter(st.db, a.id) # {}
                     THEN Stmt("UPDATE characters", a.id, "", "", Bind(a.name), "", now)
                     ELSE Stmt("INSERT characters", a.id, "", "", Bind(a.name), "", now)
        IN UpsertedCharacter_sync(st, a, Transaction(st.db, <<stmt>>, fault, ForeignKeys("sync")))

upsertCharacter_sync(st, a, now, fault) ==
    IF ~st.open THEN Outcome(st.db, st.open, Throw(ErrClosed))
    ELSE IF a.id = "" THEN Outcome(st.db, st.open, Throw(ErrCharacterId))
    ELSE LET stmt == IF SelectCharacter(st.db, a.id) # {}
                     THEN Stmt("UPDATE characters", a.id, "", "", Bind(a.name), "", now)
                     ELSE Stmt("INSERT characters", a.id, "", "", Bind(a.name), "", now)
        IN UpsertedCharacter_sync(st, a, Transaction(st.db, <<stmt>>, fault, ForeignKeys("sync")))

getCharacter_sync(st, a) ==
    IF ~st.open THEN Outcome(st.db, st.open, Throw(ErrNotOpen))
    ELSE Outcome(st.db, st.open, Return(SelectCharacter(st.db, a.id)))

getAllCharacters_sync(st) ==
    IF ~st.open THEN Outcome(st.db, st.open, Throw(ErrNotOpen))
    ELSE Outcome(st.db, st.open, Return(SelectAllCharacters(st.db)))

deleteCharacter_sync(st, a, fault) ==
    IF a.id = "" THEN Outcome(st.db, st.open, Throw(ErrCharacterId))
    ELSE IF ~st.open THEN Outcome(st.db, st.open, Throw(ErrNotOpen))
    ELSE LET instances == SeqOf(InstancesOf(st.db, a.id))
             stmts == [n \in 1..Len(instances) |->
                          Stmt("DELETE data WHERE instance_id", instances[n], "", "", "", "", 0)]
                      \o << Stmt("DELETE instances WHERE character_id", "", a.id, "", "", "", 0),
                            Stmt("DELETE characters", a.id, "", "", "", "", 0) >>
        IN Changed_sync(st, Transaction(st.db, stmts, fault, ForeignKeys("sync")))

upsertInstance_sync(st, a, now, fault) ==
    IF ~st.open THEN Outcome(st.db, st.open, Throw(ErrClosed))
    ELSE IF a.id = "" \/ a.cid = "" THEN Outcome(st.db, st.open, Throw(ErrInstanceIds))
    ELSE LET stmt == IF SelectInstance(st.db, a.id) # {}
                     THEN Stmt("UPDATE instances", a.id, a.cid, "", Bind(a.name), "", now)
                     ELSE Stmt("INSERT instances", a.id, a.cid, "", Bind(a.name), "", now)
        IN UpsertedInstance_sync(st, a, Transaction(st.db, <<stmt>>, fault, ForeignKeys("sync")))

getInstance_sync(st, a) ==
    IF ~st.open THEN Outcome(st.db, st.open, Throw(ErrNotOpen))
    ELSE Outcome(st.db, st.open, Return(SelectInstance(st.db, a.id)))

getInstancesByCharacter_sync(st, a) ==
    IF ~st.open THEN Outcome(st.db, st.open, Throw(ErrNotOpen))
    ELSE Outcome(st.db, st.open, Return(SelectInstancesByCharacter(st.db, a.cid)))

deleteInstance_sync(st, a, fault) ==
    IF a.id = "" THEN Outcome(st.db, st.open, Throw(ErrInstanceId))
    ELSE IF ~st.open THEN Outcome(st.db, st.open, Throw(ErrNotOpen))
    ELSE LET stmts == << Stmt("DELETE data WHERE instance_id", a.id, "", "", "", "", 0),
                         Stmt("DELETE instances WHERE id", a.id, "", "", "", "", 0) >>
        IN Changed_sync(st, Transaction(st.db, stmts, fault, ForeignKeys("sync")))

upsertData_sync(st, a, now, fault) ==
    IF ~st.open THEN Outcome(st.db, st.open, Throw(ErrClosed))
    ELSE IF a.id = "" \/ a.key = "" THEN Outcome(st.db, st.open, Throw(ErrInstanceKey))
    ELSE LET stmt == Stmt("REPLACE data", a.id, "", a.key, "", Encode(a.value), now)
        IN Written_sync(st, Transaction(st.db, <<stmt>>, fault, ForeignKeys("sync")))

getData_sync(st, a) ==
    IF ~st.open THEN Outcome(st.db, st.open, Throw(ErrNotOpen))
    ELSE Outcome(st.db, st.open, Return(SelectData(st.db, a.id)))

\* A lookup that gives null, not undefined, for a missing row.
getDataValueOrNull_sync(st, a) ==
    IF a.id = "" \/ a.key = "" THEN Outcome(st.db, st.open, Throw(ErrInstanceKey))
    ELSE IF ~st.open THEN Outcome(st.db, st.open, Throw(ErrNotOpen))
    ELSE IF ~HasData(st.db, a.id, a.key) THEN Outcome(st.db, st.open, Return({JsNull}))
    ELSE Outcome(st.db, st.open, Return({Decode(st.db.data[<<a.id, a.key>>].value)}))

getDataValue_sync(st, a) ==
    IF a.id = "" \/ a.key = "" THEN Outcome(st.db, st.open, Throw(ErrInstanceKey))
    ELSE IF ~st.open THEN Outcome(st.db, st.open, Throw(ErrNotOpen))
    ELSE IF ~HasData(st.db, a.id, a.key) THEN Outcome(st.db, st.open, Return({}))
    ELSE Outcome(st.db, st.open, Return({Decode(st.db.data[<<a.id, a.key>>].value)}))

deleteDataValue_sync(st, a, fault) ==
    IF a.id = "" \/ a.key = "" THEN Outcome(st.db, st.open, Throw(ErrInstanceKey))
    ELSE IF ~st.open THEN Outcome(st.db, st.open, Throw(ErrNotOpen))
    ELSE Changed_sync(st, RunStatements(st.db,
                     << Stmt("DELETE data WHERE instance_id key", a.id, "", a.key, "", "", 0) >>,
                     fault, ForeignKeys("sync")))

getFullCharacter_sync(st, a) ==
    IF ~st.open THEN Outcome(st.db, st.open, Throw(ErrNotOpen))
    ELSE IF SelectCharacter(st.db, a.id) = {} THEN Outcome(st.db, st.open, Return({}))
    ELSE Outcome(st.db, st.open, Return({
            [character |-> CharacterRow(st.db, a.id),
             instances |-> {FullInstanceOf(st.db, row) :
                               row \in SelectInstancesByCharacter(st.db, a.id)}] }))

getFullInstance_sync(st, a) ==
    IF ~st.open THEN Outcome(st.db, st.open, Throw(ErrNotOpen))
    ELSE IF SelectInstance(st.db, a.id) = {} THEN Outcome(st.db, st.open, Return({}))
    ELSE Outcome(st.db, st.open, Return({FullInstanceOf(st.db, InstanceRow(st.db, a.id))}))

\* A clear that reports true whether or not a row was deleted.
clearInstanceDataAlways_sync(st, a, fault) ==
    IF a.id = "" THEN Outcome(st.db, st.open, Throw(ErrInstanceId))
    ELSE IF ~st.open THEN Outcome(st.db, st.open, Throw(ErrNotOpen))
    ELSE Written_sync(st, Transaction(st.db,
                     << Stmt("DELETE data WHERE instance_id", a.id, "", "", "", "", 0) >>,
                     fault, ForeignKeys("sync")))

clearInstanceData_sync(st, a, fault) ==
    IF a.id = "" THEN Outcome(st.db, st.open, Throw(ErrInstanceId))
    ELSE IF ~st.open THEN Outcome(st.db, st.open, Throw(ErrNotOpen))
    ELSE Changed_sync(st, Transaction(st.db,
                     << Stmt("DELETE data WHERE instance_id", a.id, "", "", "", "", 0) >>,
                     fault, ForeignKeys("sync")))

\* close(): closes the handle when it is open; never throws
close_sync(st) == Outcome(st.db, FALSE, Return(TRUE))

\* --------------------------------------------------------------- tasks
\* One call of a Store method by a caller.  pc: "idle" (no call), "micro"
\* (suspended at an await of a settled promise: its continuation is in the
\* microtask queue), "io" (suspended at await fs.writeFile), "done" (settled).  at is the await it is suspended at.
\* The rest is history, read by the properties only: pre and post are the
\* Store when the call was made and when it settled, preFile and postFile the
\* backing file at those two moments, seq the number of the call, afterClose
\* whether a close() had completed before the call, overlapped whether
\* another call was in flight at any moment of this one, seen every
\* database there has been between two blocks while this call was in flight,
\* and failed whether an fs.writeFile of the call was rejected.
Args(id, cid, key, name, value) ==
    [id |-> id, cid |-> cid, key |-> key, name |-> name, value |-> value]
NoValue == JsString(<< >>)
NoArgs  == Args("", "", "", "", NoValue)

\* The HTTP request a call of the Store is made for (none for a call made
\* by a holder of the Store): the instance, the entries of the body and
\* those not yet written, the rows and the number of the calls made when
\* the handler began, and the status it answered with.
NoRequest ==
    [pc |-> "none", id |-> "", entries |-> << >>, left |-> << >>,
     before |-> EmptyDb, seq |-> 0, status |-> 0]
IdleTask ==
    [op |-> "none", a |-> NoArgs, fault |-> 0, now |-> 0, pc |-> "idle", at |-> 0,
     existing |-> FALSE, list |-> {}, row |-> {}, snap |-> EmptyDb,
     res |-> NoResult, pre |-> Store(EmptyDb, TRUE), post |-> Store(EmptyDb, TRUE),
     preFile |-> EmptyDb, postFile |-> EmptyDb, seq |-> 0, afterClose |-> FALSE,
     seen |-> {}, overlapped |-> FALSE, failed |-> FALSE, req |-> NoRequest]

\* ------------------------------------------------------- the state
VARIABLES
    engine,   \* "sync" or "async": which DatabaseManager this behaviour runs
    byName,   \* what sql.js does with {':id': v} given to a '?' statement
    db,       \* the tables of the open database (in memory for sql.js)
    open,     \* the native handle is open
    file,     \* the tables in the backing file <cwd>/db/<extensionId>.db
    clock,    \* the wall clock read by new Date()
    calls,    \* how many calls have been made
    tasks,    \* the call of each caller
    microQ,   \* the microtask queue: tasks whose continuation is ready, FIFO
    closed,   \* history: a call of close() has completed
    stores,   \* every Store object constructed for the Registry's callers
    disk,     \* the rows in each backing file, by path
    registry, \* the Map extensionDatabases, in insertion order
    rcalls,   \* the Registry call of each caller
    rhist,    \* history of the Registry's calls
    idcall    \* an extension id given to the sanitizer, and what it gave back

managerVars == <<engine, byName, db, open, file, clock, calls, tasks, microQ, closed>>
storeVars == <<managerVars, idcall>>
registryVars == <<stores, disk, registry, rcalls, rhist>>
regVars == <<registryVars, idcall>>
vars == <<engine, byName, db, open, file, clock, calls, tasks, microQ, closed,
          stores, disk, registry, rcalls, rhist, idcall>>

\* ---------------------------------------- the asynchronous Store (async)
\* Each method is the code between two awaits: op_async(st, t) runs the
\* block task t is about to run (t.at = 0: from the call to the first
\* await) on Store st and gives the Store and the task after it.
Step(st, t) == [db |-> st.db, open |-> st.open, task |-> t]
Yield(st, t, at) == Step(st, [t EXCEPT !.pc = "micro", !.at = at])
Finish(st, t, r) ==
    Step(st, [t EXCEPT !.pc = "done", !.res = r, !.post = Store(st.db, st.open)])

\* isOpen(): this.db !== undefined && this.db !== null; create() sets db and
\* nothing, close() included, ever unsets it.
isOpen_async(st) == TRUE
\* isOpen(): this.db && this.db.open
isOpen_sync(st) == st.open
isOpen(st) == IF engine = "sync" THEN isOpen_sync(st) ELSE isOpen_async(st)

\* flushToDisk(), up to its await: export() reads the tables (and throws on
\* a closed handle), fs.writeFile is started.
flushToDisk(st, t, at) ==
    IF ~st.open THEN Finish(st, t, Throw(ErrNotOpen))
    ELSE Step(st, [t EXCEPT !.pc = "io", !.at = at, !.snap = st.db])

\* The three reads by primary key prepare a statement whose parameters are
\* positional ('... WHERE id = ?') and bind them by name
\* (stmt.getAsObject({':id': id})).  The code expects the value to reach the
\* parameter and an object without keys when no row matches (byName =
\* "bound").  sql.js binds only the names the statement declares and fills
\* the object from the statement's column names: the parameter stays NULL,
\* no row matches, and the object has every column, each undefined (byName =
\* "ignored").  The repository pins no version of the library, so a
\* behaviour runs under either.
InvalidDate == -1
ByNames == {"bound", "ignored"}

\* getCharacter(id): the row, null, or an object of undefined columns
GetCharacterRow(d, id) ==
    IF byName = "bound" THEN SelectCharacter(d, id)
    ELSE {[id |-> JsUndefined, name |-> JsUndefined,
           createdAt |-> InvalidDate, updatedAt |-> InvalidDate]}

\* getInstance(id): the same way
GetInstanceRow(d, id) ==
    IF byName = "bound" THEN SelectInstance(d, id)
    ELSE {[id |-> JsUndefined, characterId |-> JsUndefined, name |-> JsUndefined,
           createdAt |-> InvalidDate, updatedAt |-> InvalidDate]}

\* character.name || null
OrNull(arg) == IF arg \in {JsUndefined, ""} THEN SqlNull ELSE arg

\* db.run of each statement in turn, no transaction around them
RunAsync(d, stmts) == RunStatements(d, stmts, 0, ForeignKeys("async"))

\* after db.run of an upsert with result r: the error thrown on, or the
\* row read back (const result = await this.getCharacter(id))
UpsertedCharacter_async(st, t, r) ==
    IF ~r.ok THEN Finish(Store(r.db, st.open), t, Throw(ErrEngine))
    ELSE Yield(Store(r.db, st.open), [t EXCEPT !.row = GetCharacterRow(r.db, t.a.id)], 2)
UpsertedInstance_async(st, t, r) ==
    IF ~r.ok THEN Finish(Store(r.db, st.open), t, Throw(ErrEngine))
    ELSE Yield(Store(r.db, st.open), [t EXCEPT !.row = GetInstanceRow(r.db, t.a.id)], 2)

upsertCharacter_async(st, t) ==
    CASE t.at = 0 ->
           IF ~isOpen_async(st) THEN Finish(st, t, Throw(ErrClosed))
           ELSE IF t.a.id = "" THEN Finish(st, t, Throw(ErrCharacterId))
           ELSE IF ~st.open THEN Finish(st, t, Throw(ErrNotOpen))
           ELSE Yield(st, [t EXCEPT !.existing = GetCharacterRow(st.db, t.a.id) # {}], 1)
      [] t.at = 1 ->
           IF ~st.open THEN Finish(st, t, Throw(ErrNotOpen))
           ELSE LET stmt == IF t.existing
                            THEN Stmt("UPDATE characters", t.a.id, "", "", OrNull(t.a.name), "", t.now)
                            ELSE Stmt("INSERT characters", t.a.id, "", "", OrNull(t.a.name), "", t.now)
                IN UpsertedCharacter_async(st, t, RunAsync(st.db, <<stmt>>))
      [] t.at = 2 ->
           IF t.row = {} THEN Finish(st, t, Throw(ErrNoCharacter))
           ELSE flushToDisk(st, t, 3)

getCharacter_async(st, t) ==
    IF ~st.open THEN Finish(st, t, Throw(ErrNotOpen))
    ELSE Finish(st, t, Return(GetCharacterRow(st.db, t.a.id)))

getAllCharacters_async(st, t) ==
    IF ~st.open THEN Finish(st, t, Throw(ErrNotOpen))
    ELSE Finish(st, t, Return(SelectAllCharacters(st.db)))

deleteCharacter_async(st, t) ==
    CASE t.at = 0 ->
           IF t.a.id = "" THEN Finish(st, t, Throw(ErrCharacterId))
           ELSE IF ~st.open THEN Finish(st, t, Throw(ErrNotOpen))
           ELSE Yield(st, [t EXCEPT !.existing = GetCharacterRow(st.db, t.a.id) # {}], 1)
      [] t.at = 1 ->
           IF ~t.existing THEN Finish(st, t, Return(FALSE))
           ELSE IF ~st.open THEN Finish(st, t, Throw(ErrNotOpen))
           ELSE Yield(st, [t EXCEPT !.list = InstancesOf(st.db, t.a.id)], 2)
      [] t.at = 2 ->
           IF ~st.open THEN Finish(st, t, Throw(ErrNotOpen))
           ELSE LET instances == SeqOf(t.list)
                    stmts == [n \in 1..Len(instances) |->
                                 Stmt("DELETE data WHERE instance_id", instances[n], "", "", "", "", 0)]
                             \o << Stmt("DELETE instances WHERE character_id", "", t.a.id, "", "", "", 0),
                                   Stmt("DELETE characters", t.a.id, "", "", "", "", 0) >>
                    r == RunAsync(st.db, stmts)
                IN flushToDisk(Store(r.db, st.open), t, 3)

upsertInstance_async(st, t) ==
    CASE t.at = 0 ->
           IF ~isOpen_async(st) THEN Finish(st, t, Throw(ErrClosed))
           ELSE IF t.a.id = "" \/ t.a.cid = "" THEN Finish(st, t, Throw(ErrInstanceIds))
           ELSE IF ~st.open THEN Finish(st, t, Throw(ErrNotOpen))
           ELSE Yield(st, [t EXCEPT !.existing = GetInstanceRow(st.db, t.a.id) # {}], 1)
      [] t.at = 1 ->
           IF ~st.open THEN Finish(st, t, Throw(ErrNotOpen))
           ELSE LET stmt == IF t.existing
                            THEN Stmt("UPDATE instances", t.a.id, t.a.cid, "", OrNull(t.a.name), "", t.now)
                            ELSE Stmt("INSERT instances", t.a.id, t.a.cid, "", OrNull(t.a.name), "", t.now)
                IN UpsertedInstance_async(st, t, RunAsync(st.db, <<stmt>>))
      [] t.at = 2 ->
           IF t.row = {} THEN Finish(st, t, Throw(ErrNoInstance))
           ELSE flushToDisk(st, t, 3)

getInstance_async(st, t) ==
    IF ~st.open THEN Finish(st, t, Throw(ErrNotOpen))
    ELSE Finish(st, t, Return(GetInstanceRow(st.db, t.a.id)))

getInstancesByCharacter_async(st, t) ==
    IF ~st.open THEN Finish(st, t, Throw(ErrNotOpen))
    ELSE Finish(st, t, Return(SelectInstancesByCharacter(st.db, t.a.cid)))

deleteInstance_async(st, t) ==
    CASE t.at = 0 ->
           IF t.a.id = "" THEN Finish(st, t, Throw(ErrInstanceId))
           ELSE IF ~st.open THEN Finish(st, t, Throw(ErrNotOpen))
           ELSE Yield(st, [t EXCEPT !.existing = GetInstanceRow(st.db, t.a.id) # {}], 1)
      [] t.at = 1 ->
           IF ~t.existing THEN Finish(st, t, Return(FALSE))
           ELSE IF ~st.open THEN Finish(st, t, Throw(ErrNotOpen))
           ELSE LET r == RunAsync(st.db,
                            << Stmt("DELETE data WHERE instance_id", t.a.id, "", "", "", "", 0),
                               Stmt("DELETE instances WHERE id", t.a.id, "", "", "", "", 0) >>)
                IN flushToDisk(Store(r.db, st.open), t, 2)

upsertData_async(st, t) ==
    IF ~isOpen_async(st) THEN Finish(st, t, Throw(ErrClosed))
    ELSE IF t.a.id = "" \/ t.a.key = "" THEN Finish(st, t, Throw(ErrInstanceKey))
    ELSE IF ~st.open THEN Finish(st, t, Throw(ErrNotOpen))
    ELSE LET r == RunAsync(st.db,
                     << Stmt("REPLACE data", t.a.id, "", t.a.key, "", Encode(t.a.value), t.now) >>)
         IN flushToDisk(Store(r.db, st.open), t, 1)

getData_async(st, t) ==
    IF ~st.open THEN Finish(st, t, Throw(ErrNotOpen))
    ELSE Finish(st, t, Return(SelectData(st.db, t.a.id)))

\* the value getDataValue resolves to: undefined when !row || !row.value
DataValue_async(d, iid, k) ==
    IF byName = "ignored" THEN {}
    ELSE IF ~HasData(d, iid, k) \/ d.data[<<iid, k>>].value = << >> THEN {}
    ELSE {Decode(d.data[<<iid, k>>].value)}

getDataValue_async(st, t) ==
    IF t.a.id = "" \/ t.a.key = "" THEN Finish(st, t, Throw(ErrInstanceKey))
    ELSE IF ~st.open THEN Finish(st, t, Throw(ErrNotOpen))
    ELSE Finish(st, t, Return(DataValue_async(st.db, t.a.id, t.a.key)))

deleteDataValue_async(st, t) ==
    CASE t.at = 0 ->
           IF t.a.id = "" \/ t.a.key = "" THEN Finish(st, t, Throw(ErrInstanceKey))
           ELSE IF ~st.open THEN Finish(st, t, Throw(ErrNotOpen))
           ELSE Yield(st, [t EXCEPT !.existing =
                              DataValue_async(st.db, t.a.id, t.a.key) # {}], 1)
      [] t.at = 1 ->
           IF ~t.existing THEN Finish(st, t, Return(FALSE))
           ELSE IF ~st.open THEN Finish(st, t, Throw(ErrNotOpen))
           ELSE LET r == RunAsync(st.db,
                            << Stmt("DELETE data WHERE instance_id key", t.a.id, "", t.a.key, "", "", 0) >>)
                IN flushToDisk(Store(r.db, st.open), t, 2)

getFullCharacter_async(st, t) ==
    CASE t.at = 0 ->
           IF ~st.open THEN Finish(st, t, Throw(ErrNotOpen))
           ELSE Yield(st, [t EXCEPT !.row = GetCharacterRow(st.db, t.a.id)], 1)
      [] t.at = 1 ->
           IF t.row = {} THEN Finish(st, t, Return({}))
           ELSE IF ~st.open THEN Finish(st, t, Throw(ErrNotOpen))
           ELSE Yield(st, [t EXCEPT !.list = SelectInstancesByCharacter(st.db, t.a.id)], 2)
      [] t.at = 2 ->
           IF t.list # {} /\ ~st.open THEN Finish(st, t, Throw(ErrNotOpen))
           ELSE Finish(st, t, Return({
                   [character |-> CHOOSE c \in t.row : TRUE,
                    instances |-> {FullInstanceOf(st.db, row) : row \in t.list}] }))

getFullInstance_async(st, t) ==
    CASE t.at = 0 ->
           IF ~st.open THEN Finish(st, t, Throw(ErrNotOpen))
           ELSE Yield(st, [t EXCEPT !.row = GetInstanceRow(st.db, t.a.id)], 1)
      [] t.at = 1 ->
           IF t.row = {} THEN Finish(st, t, Return({}))
           ELSE IF ~st.open THEN Finish(st, t, Throw(ErrNotOpen))
           ELSE Finish(st, t, Return({[instance |-> CHOOSE r \in t.row : TRUE,
                                         data |-> SelectData(st.db, t.a.id)]}))

clearInstanceData_async(st, t) ==
    CASE t.at = 0 ->
           IF t.a.id = "" THEN Finish(st, t, Throw(ErrInstanceId))
           ELSE IF ~st.open THEN Finish(st, t, Throw(ErrNotOpen))
           ELSE Yield(st, [t EXCEPT !.existing = DataKeysOf(st.db, t.a.id) # {}], 1)
      [] t.at = 1 ->
           IF ~t.existing THEN Finish(st, t, Return(FALSE))
           ELSE IF ~st.open THEN Finish(st, t, Throw(ErrNotOpen))
           ELSE LET r == RunAsync(st.db,
                            << Stmt("DELETE data WHERE instance_id", t.a.id, "", "", "", "", 0) >>)
                IN flushToDisk(Store(r.db, st.open), t, 2)

\* close(): try { await flushToDisk(); db.close() } catch { log }
close_async(st, t) ==
    IF ~st.open THEN Finish(st, t, Return(TRUE))
    ELSE Step(st, [t EXCEPT !.pc = "io", !.at = 1, !.snap = st.db])

\* The continuation after await fs.writeFile: ok says whether the write
\* succeeded.  close() then closes the handle, or swallows the failure.
AfterWriteFile(st, t, ok) ==
    CASE t.op = "close" ->
           IF ok THEN Finish(Store(st.db, FALSE), t, Return(TRUE))
           ELSE Finish(st, t, Return(TRUE))
      [] t.op \in {"upsertCharacter", "upsertInstance"} ->
           IF ok THEN Finish(st, t, Return(t.row)) ELSE Finish(st, t, Throw(ErrWriteFile))
      [] OTHER ->
           IF ok THEN Finish(st, t, Return(TRUE)) ELSE Finish(st, t, Throw(ErrWriteFile))

Engines == {"sync", "async"}
CompoundReads == {"getFullCharacter", "getFullInstance"}
InFlight(t) == tasks[t].pc \in {"micro", "io"}

\* the whole synchronous method op
SyncCall(op, st, a, now, fault) ==
    CASE op = "upsertCharacter" -> upsertCharacter_sync(st, a, now, fault)
      [] op = "getCharacter" -> getCharacter_sync(st, a)
      [] op = "getAllCharacters" -> getAllCharacters_sync(st)
      [] op = "deleteCharacter" -> deleteCharacter_sync(st, a, fault)
      [] op = "upsertInstance" -> upsertInstance_sync(st, a, now, fault)
      [] op = "getInstance" -> getInstance_sync(st, a)
      [] op = "getInstancesByCharacter" -> getInstancesByCharacter_sync(st, a)
      [] op = "deleteInstance" -> deleteInstance_sync(st, a, fault)
      [] op = "upsertData" -> upsertData_sync(st, a, now, fault)
      [] op = "getData" -> getData_sync(st, a)
      [] op = "getDataValue" -> getDataValue_sync(st, a)
      [] op = "deleteDataValue" -> deleteDataValue_sync(st, a, fault)
      [] op = "getFullCharacter" -> getFullCharacter_sync(st, a)
      [] op = "getFullInstance" -> getFullInstance_sync(st, a)
      [] op = "clearInstanceData" -> clearInstanceData_sync(st, a, fault)
      [] op = "close" -> close_sync(st)

\* the next block of the asynchronous method t.op
AsyncBlock(st, t) ==
    CASE t.op = "upsertCharacter" -> upsertCharacter_async(st, t)
      [] t.op = "getCharacter" -> getCharacter_async(st, t)
      [] t.op = "getAllCharacters" -> getAllCharacters_async(st, t)
      [] t.op = "deleteCharacter" -> deleteCharacter_async(st, t)
      [] t.op = "upsertInstance" -> upsertInstance_async(st, t)
      [] t.op = "getInstance" -> getInstance_async(st, t)
      [] t.op = "getInstancesByCharacter" -> getInstancesByCharacter_async(st, t)
      [] t.op = "deleteInstance" -> deleteInstance_async(st, t)
      [] t.op = "upsertData" -> upsertData_async(st, t)
      [] t.op = "getData" -> getData_async(st, t)
      [] t.op = "getDataValue" -> getDataValue_async(st, t)
      [] t.op = "deleteDataValue" -> deleteDataValue_async(st, t)
      [] t.op = "getFullCharacter" -> getFullCharacter_async(st, t)
      [] t.op = "getFullInstance" -> getFullInstance_async(st, t)
      [] t.op = "clearInstanceData" -> clearInstanceData_async(st, t)
      [] t.op = "close" -> close_async(st, t)

\* history: a compound read in flight has now seen database d as well
Observe(task, d) ==
    IF task.pc \in {"micro", "io"} /\ task.op \in CompoundReads
    THEN [task EXCEPT !.seen = @ \cup {d}] ELSE task

\* history: the backing file is f when the task settles
Settle(task, f) ==
    IF task.pc = "done" THEN [task EXCEPT !.postFile = f] ELSE task

\* the state after task t ran a block with outcome r = [db, open, task],
\* the backing file being f afterwards
Apply(t, r, f) ==
    /\ db' = r.db
    /\ open' = r.open
    /\ file' = f
    /\ tasks' = [u \in Tasks |->
                   IF u = t THEN Settle(r.task, f) ELSE Observe(tasks[u], r.db)]
    /\ closed' = (closed \/ (r.task.pc = "done" /\ r.task.op = "close"))

\* the record of a call of op made now by caller t
NewTask(t, op, a, fault) ==
    [IdleTask EXCEPT !.op = op, !.a = a, !.now = clock,
        !.fault = IF engine = "sync" THEN fault ELSE 0,
        !.pre = Store(db, open), !.preFile = file, !.seq = calls + 1,
        !.afterClose = closed, !.seen = {db},
        !.overlapped = \E u \in Tasks \ {t} : InFlight(u)]

\* the synchronous method has run whole, with outcome out
Ran_sync(t0, out) == Finish(Store(out.db, out.open), t0, out.res)

FirstBlock(op, st, t0, a, fault) ==
    IF engine = "sync" THEN Ran_sync(t0, SyncCall(op, st, a, clock, fault))
    ELSE AsyncBlock(st, t0)

\* the file after the first block r of a call: better-sqlite3 writes through
FileAfter(r) == IF engine = "sync" THEN r.db ELSE file

\* the state after caller t entered op and ran its first block, r
Enter(t, op, r) ==
    /\ db' = r.db
    /\ open' = r.open
    /\ file' = FileAfter(r)
    /\ tasks' = [u \in Tasks |->
                   IF u = t THEN Settle(r.task, FileAfter(r))
                   ELSE IF InFlight(u)
                        THEN Observe([tasks[u] EXCEPT !.overlapped = TRUE], r.db)
                        ELSE tasks[u]]
    /\ microQ' = IF r.task.pc = "micro" THEN Append(microQ, t) ELSE microQ
    /\ closed' = (closed \/ (r.task.pc = "done" /\ op = "close"))

\* A caller that has no call in flight calls method op (its previous call,
\* if any, has settled and its record is replaced).  The synchronous Store
\* runs the method whole; the asynchronous one runs it to its first await.
Ready(t) == tasks[t].pc \in {"idle", "done"} /\ calls < MaxCalls
Call(t, op, a, fault) ==
    /\ calls' = calls + 1
    /\ Enter(t, op, FirstBlock(op, Store(db, open), NewTask(t, op, a, fault), a, fault))
    /\ UNCHANGED <<regVars, engine, byName, clock>>

\* the state after the microtask of t ran the block r
Continue(t, r) ==
    /\ Apply(t, r, file)
    /\ microQ' = IF r.task.pc = "micro" THEN Append(Tail(microQ), t)
                 ELSE Tail(microQ)

\* The event loop runs the next microtask: the continuation of the task at
\* the head of the queue, up to its next await.
Resume ==
    /\ microQ # << >>
    /\ Continue(Head(microQ), AsyncBlock(Store(db, open), tasks[Head(microQ)]))
    /\ UNCHANGED <<regVars, engine, byName, clock, calls>>

\* fs.writeFile of task t completes: a macrotask, run when no microtask is
\* left.  The file now holds what export() gave.
WriteFileDone(t) ==
    /\ tasks[t].pc = "io"
    /\ microQ = << >>
    /\ Apply(t, AfterWriteFile(Store(db, open), tasks[t], TRUE), tasks[t].snap)
    /\ UNCHANGED <<regVars, engine, byName, clock, calls, microQ>>

\* fs.writeFile of task t fails (disk full, directory gone)
WriteFileFails(t) ==
    /\ tasks[t].pc = "io"
    /\ microQ = << >>
    /\ Apply(t, AfterWriteFile(Store(db, open), [tasks[t] EXCEPT !.failed = TRUE], FALSE), file)
    /\ UNCHANGED <<regVars, engine, byName, clock, calls, microQ>>

\* time passes
Tick ==
    /\ clock < MaxClock
    /\ clock' = clock + 1
    /\ UNCHANGED <<regVars, engine, byName, db, open, file, calls, tasks, microQ, closed>>

\* ------------------------------------------------------------ the calls
IdArgs(S)  == S \cup {""}
NoFault    == {0}
Faults     == {0, 1, 2}
Values     == { JsNumber(<<"7">>), JsString(<<"a">>) }
\* JSON-round-trippable values of every type
DataValues ==
    { JsString(<<"a">>), JsString(<<"7">>), JsString(<< >>), JsNumber(<<"7">>),
      JsBoolean(<<"t", "r", "u", "e">>), JsNull,
      JsArray(<<"[", "7", "]">>), JsObject(<<"{", "\"", "a", "\"", ":", "[", "7", "]", "}">>) }

CallUpsertCharacter(t, ids, names, faults) ==
    /\ Ready(t)
    /\ \E id \in ids, name \in names, f \in faults :
           Call(t, "upsertCharacter", Args(id, "", "", name, NoValue), f)
CallGetCharacter(t, ids) ==
    /\ Ready(t)
    /\ \E id \in ids : Call(t, "getCharacter", Args(id, "", "", "", NoValue), 0)
CallGetAllCharacters(t) ==
    /\ Ready(t)
    /\ Call(t, "getAllCharacters", NoArgs, 0)
CallDeleteCharacter(t, ids, faults) ==
    /\ Ready(t)
    /\ \E id \in ids, f \in faults :
           Call(t, "deleteCharacter", Args(id, "", "", "", NoValue), f)
CallUpsertInstance(t, ids, cids, names, faults) ==
    /\ Ready(t)
    /\ \E id \in ids, cid \in cids, name \in names, f \in faults :
           Call(t, "upsertInstance", Args(id, cid, "", name, NoValue), f)
CallGetInstance(t, ids) ==
    /\ Ready(t)
    /\ \E id \in ids : Call(t, "getInstance", Args(id, "", "", "", NoValue), 0)
CallGetInstancesByCharacter(t, cids) ==
    /\ Ready(t)
    /\ \E cid \in cids : Call(t, "getInstancesByCharacter", Args("", cid, "", "", NoValue), 0)
CallDeleteInstance(t, ids, faults) ==
    /\ Ready(t)
    /\ \E id \in ids, f \in faults :
           Call(t, "deleteInstance", Args(id, "", "", "", NoValue), f)
CallUpsertData(t, ids, keys, values, faults) ==
    /\ Ready(t)
    /\ \E id \in ids, k \in keys, v \in values, f \in faults :
           Call(t, "upsertData", Args(id, "", k, "", v), f)
CallGetData(t, ids) ==
    /\ Ready(t)
    /\ \E id \in ids : Call(t, "getData", Args(id, "", "", "", NoValue), 0)
CallGetDataValue(t, ids, keys) ==
    /\ Ready(t)
    /\ \E id \in ids, k \in keys : Call(t, "getDataValue", Args(id, "", k, "", NoValue), 0)
CallDeleteDataValue(t, ids, keys, faults) ==
    /\ Ready(t)
    /\ \E id \in ids, k \in keys, f \in faults :
           Call(t, "deleteDataValue", Args(id, "", k, "", NoValue), f)
CallGetFullCharacter(t, ids) ==
    /\ Ready(t)
    /\ \E id \in ids : Call(t, "getFullCharacter", Args(id, "", "", "", NoValue), 0)
CallGetFullInstance(t, ids) ==
    /\ Ready(t)
    /\ \E id \in ids : Call(t, "getFullInstance", Args(id, "", "", "", NoValue), 0)
CallClearInstanceData(t, ids, faults) ==
    /\ Ready(t)
    /\ \E id \in ids, f \in faults :
           Call(t, "clearInstanceData", Args(id, "", "", "", NoValue), f)
CallClose(t) ==
    /\ Ready(t)
    /\ Call(t, "close", NoArgs, 0)

\* A call running alone from start to end on Store st, every file write
\* succeeding: what the call gives and the Store it leaves.
RECURSIVE Driven(_)
Driven(r) ==
    CASE r.task.pc = "micro" -> Driven(AsyncBlock(Store(r.db, r.open), r.task))
      [] r.task.pc = "io" -> Driven(AfterWriteFile(Store(r.db, r.open), r.task, TRUE))
      [] OTHER -> r
Drive(st, t) == Driven(AsyncBlock(st, t))

OutcomeOf(r) == Outcome(r.db, r.open, r.task.res)
Alone(op, st, a, now) ==
    IF engine = "sync" THEN SyncCall(op, st, a, now, 0)
    ELSE OutcomeOf(Drive(st, [IdleTask EXCEPT !.op = op, !.a = a, !.now = now]))

\* ------------------------------------------------ extension identifiers
\* An extension id is a JavaScript string, here the sequence of its
\* characters.  sanitizeExtensionId and validateExtensionId either return a
\* string or throw.
MaxIdLength == 255
ReservedChars == {"<", ">", ":", "\"", "/", "\\", "|", "?", "*"}
Whitespace == {" ", "\t"}

IdReturned(s) == [ok |-> TRUE, id |-> s]
IdRejected  == [ok |-> FALSE, id |-> << >>]

\* s.replace(/<pat>/g, ''): every match, left to right, is cut out.  The two
\* patterns this is used with cannot overlap themselves, so the matches are
\* all the places where pat occurs, and what is left are the characters
\* outside them, in their order.
Matches(s, pat) ==
    {n \in 1..(Len(s) - Len(pat) + 1) : SubSeq(s, n, n + Len(pat) - 1) = pat}
Outside(s, pat, ms) ==
    {i \in 1..Len(s) : \A n \in ms : i < n \/ i > n + Len(pat) - 1}
Picked(s, kept) ==
    [k \in 1..Cardinality(kept) |->
        s[CHOOSE i \in kept : Cardinality({j \in kept : j <= i}) = k]]
RemoveAll(s, pat) ==
    IF Matches(s, pat) = {} THEN s
    ELSE Picked(s, Outside(s, pat, Matches(s, pat)))

RemoveTraversalOnce(s) ==
    RemoveAll(RemoveAll(s, <<".", ".", "/">>), <<".", ".", "\\">>)

\* do { ... } while (sanitized !== prevSanitized)
RECURSIVE RemoveTraversal(_)
RemoveTraversal(s) ==
    IF RemoveTraversalOnce(s) = s THEN s
    ELSE RemoveTraversal(RemoveTraversalOnce(s))

\* the string with its reserved characters left in
KeepReserved(s) == s
ReplaceReserved(s) ==
    [n \in 1..Len(s) |-> IF s[n] \in ReservedChars THEN "_" ELSE s[n]]

\* the string at its full length
Untruncated(s) == s
Truncate(s) == SubSeq(s, 1, IF Len(s) < MaxIdLength THEN Len(s) ELSE MaxIdLength)

sanitizeExtensionId(s) ==
    IF s = << >> THEN IdRejected
    ELSE IF Truncate(ReplaceReserved(RemoveTraversal(s))) = << >> THEN IdRejected
    ELSE IdReturned(Truncate(ReplaceReserved(RemoveTraversal(s))))
\* The compiled helper removes the traversal sequences in one pass.
sanitizeExtensionId_dist(s) ==
    IF s = << >> THEN IdRejected
    ELSE IF Truncate(ReplaceReserved(RemoveTraversalOnce(s))) = << >> THEN IdRejected
    ELSE IdReturned(Truncate(ReplaceReserved(RemoveTraversalOnce(s))))

RECURSIVE TrimStart(_)
TrimStart(s) ==
    IF s # << >> /\ Head(s) \in Whitespace THEN TrimStart(Tail(s)) ELSE s
RECURSIVE TrimEnd(_)
TrimEnd(s) ==
    IF s # << >> /\ s[Len(s)] \in Whitespace
    THEN TrimEnd(SubSeq(s, 1, Len(s) - 1)) ELSE s
Trim(s) == TrimEnd(TrimStart(s))

\* the checks of a validateExtensionId that does not trim
Untrimmed(s) ==
    IF Trim(s) = << >> THEN IdRejected
    ELSE IF Head(s) = "." THEN IdRejected
    ELSE IdReturned(s)
Trimmed(s) ==
    IF Trim(s) = << >> THEN IdRejected
    ELSE IF Head(Trim(s)) = "." THEN IdRejected
    ELSE IdReturned(Trim(s))

validateExtensionId(s) ==
    IF sanitizeExtensionId(s).ok THEN Trimmed(sanitizeExtensionId(s).id)
    ELSE IdRejected
validateExtensionId_dist(s) ==
    IF sanitizeExtensionId_dist(s).ok THEN Trimmed(sanitizeExtensionId_dist(s).id)
    ELSE IdRejected

\* path.join(process.cwd(), 'db', `${this.extensionId}.db`)
DbPathOfPlugin(id) == <<"db", "/", "v", "t", ".", "d", "b">>
DbPath(id) == <<"db", "/">> \o id \o <<".", "d", "b">>

\* isValidId(id): /^[a-zA-Z0-9_-]+$/; a missing id is no valid id
IdChars ==
    {"a", "b", "c", "d", "e", "f", "g", "h", "i", "j", "k", "l", "m", "n", "o",
     "p", "q", "r", "s", "t", "u", "v", "w", "x", "y", "z", "A", "B", "C", "D",
     "E", "F", "G", "H", "I", "J", "K", "L", "M", "N", "O", "P", "Q", "R", "S",
     "T", "U", "V", "W", "X", "Y", "Z", "0", "1", "2", "3", "4", "5", "6", "7",
     "8", "9", "_", "-"}
isNonEmpty(s) == s # << >>
isValidId(s) == s # << >> /\ \A n \in 1..Len(s) : s[n] \in IdChars

\* The sanitizer applied to a given string: builds are the helper of the
\* source ("src") and the compiled one ("dist").
Builds == {"src", "dist"}
sanitize(build, s) ==
    IF build = "src" THEN sanitizeExtensionId(s) ELSE sanitizeExtensionId_dist(s)
validate(build, s) ==
    IF build = "src" THEN validateExtensionId(s) ELSE validateExtensionId_dist(s)

MaxLen == 4
IdAlphabet == {".", "/", "\\", "a", "_", " ", "<"}
Pad(n) == [i \in 1..n |-> "a"]
Dangerous ==
    <<".", ".", "/", "d", "a", "n", "g", "e", "r", "o", "u", "s", "/", "p", "a", "t", "h">>
DangerousPath ==
    <<"d", "a", "n", "g", "e", "r", "o", "u", "s", "_", "p", "a", "t", "h">>
LongIds ==
    { Pad(MaxIdLength), Pad(MaxIdLength + 1),
      <<" ">> \o Pad(MaxIdLength), <<".">> \o Pad(MaxIdLength),
      <<".", ".", "/", "<">> \o Pad(MaxIdLength),
      Pad(MaxIdLength - 1) \o <<".", ".", "/">>,
      Pad(MaxIdLength - 1) \o <<"/", "/">> }
GivenIds ==
    UNION {[1..n -> IdAlphabet] : n \in 0..MaxLen}
    \cup LongIds
    \cup { Dangerous, <<".", ".", ".", ".", "/", "/">>, <<".", ".", ".", "/", ".", "/">>,
           <<"\t">>, <<"\t", ".", "a">>, <<"a", "-", "1">>, <<"A", "_", "9">> }
NoIds == [build |-> "src", x |-> << >>, pc |-> "idle", out |-> IdRejected, again |-> IdRejected]
Given(build, x) == [NoIds EXCEPT !.build = build, !.x = x, !.pc = "given"]

\* sanitizeExtensionId(x), and sanitizeExtensionId of what it returned
Sanitize ==
    /\ idcall.pc = "given"
    /\ idcall' = [idcall EXCEPT !.pc = "sanitized", !.out = sanitize(idcall.build, idcall.x)]
    /\ UNCHANGED <<managerVars, registryVars>>
SanitizeAgain ==
    /\ idcall.pc = "sanitized"
    /\ idcall.out.ok
    /\ idcall' = [idcall EXCEPT !.pc = "twice", !.again = sanitize(idcall.build, idcall.out.id)]
    /\ UNCHANGED <<managerVars, registryVars>>
\* validateExtensionId(x)
Validate ==
    /\ idcall.pc = "given"
    /\ idcall' = [idcall EXCEPT !.pc = "validated", !.out = validate(idcall.build, idcall.x)]
    /\ UNCHANGED <<managerVars, registryVars>>

\* The ids the callers of the Registry pass.
RawIds == {<<"a">>, <<"b">>, <<".", ".", "/", "a">>, <<" ">>}
ValidIds == {validateExtensionId(s).id : s \in {r \in RawIds : validateExtensionId(r).ok}}

\* The dbPath argument of the constructor: absent (undefined), or a path the
\* caller chose.
NoPath == << >>
PathArgs == {NoPath, <<"/", "t", "m", "p", "/", "x">>}
\* The constructor logs that a dbPath it is given is ignored, and joins the
\* path from the validated id.
PathAsSupplied(dbPath, id) == IF dbPath = NoPath THEN DbPath(id) ELSE dbPath
PathFor(dbPath, id) == DbPath(id)
Paths == {DbPath(v) : v \in ValidIds} \cup (PathArgs \ {NoPath})

\* ----------------------------------------------------------- the Registry
\* class CrossExtensionReader: the Map extensionDatabases from a validated
\* extension id to a Store.  src/src/CrossExtensionReader.ts is the
\* synchronous Registry (of better-sqlite3 Stores), src/src/core/
\* ApiEndpoints.ts lines 1792-1903 the asynchronous one (of sql.js Stores).
\*
\* A Store is seen here by its extension id, the path of its file, its
\* native handle (open) and one table: rows is the set of character ids a
\* sql.js Store holds in memory; a better-sqlite3 Store reads and writes its
\* file.  Stores are numbered in the order of their construction.
MaxStores   == 3
MaxRegCalls == 4
RegCallers  == {"r1", "r2"}
RowIds      == {"c1"}
NoStore     == 0

Handles == 1..Len(stores)
StoreAt(dbPath, id) ==
    [id |-> id, given |-> dbPath, path |-> PathFor(dbPath, id), open |-> TRUE,
     rows |-> EmptyDb]
StoreOf(id) == StoreAt(NoPath, id)

\* What a read of the table through Store h gives.
ReadOf(sts, dsk, h) ==
    IF engine = "sync" THEN dsk[sts[h].path] ELSE sts[h].rows

\* The Map: entries keep the order of their insertion, set() on a key that
\* is present keeps its place.
EmptyMap == [map |-> << >>, next |-> 1]
MapHas(m, id) == id \in DOMAIN m.map
MapGet(m, id) == IF MapHas(m, id) THEN m.map[id].h ELSE NoStore
MapSet(m, id, h) ==
    IF MapHas(m, id) THEN [m EXCEPT !.map[id].h = h]
    ELSE [map  |-> [k \in DOMAIN m.map \cup {id} |->
                      IF k = id THEN [h |-> h, seq |-> m.next] ELSE m.map[k]],
          next |-> m.next + 1]
MapDelete(m, id) == [m EXCEPT !.map = [k \in DOMAIN m.map \ {id} |-> m.map[k]]]
MapClear(m) == [m EXCEPT !.map = << >>]
MapSize(m) == Cardinality(DOMAIN m.map)
\* for (const [id, dbManager] of map): the entries after position pos, an
\* entry added while the loop runs included.
EntriesAfter(m, pos) == {k \in DOMAIN m.map : m.map[k].seq > pos}
NextEntry(m, pos) ==
    CHOOSE k \in EntriesAfter(m, pos) :
        \A j \in EntriesAfter(m, pos) : m.map[k].seq <= m.map[j].seq
Registered(m) == {m.map[k].h : k \in DOMAIN m.map}

\* getDbManager(extensionId)
getDbManager(m, raw) ==
    IF validateExtensionId(raw).ok THEN MapGet(m, validateExtensionId(raw).id)
    ELSE NoStore

\* The read methods of the cross-extension view.  Without a Store for the
\* id each returns its literal (null, {}, undefined, []; a nullable result is
\* the set of at most one element, a list the set of its rows, an object the
\* function of its keys); with a Store it returns what the Store returns.
ViewOps == {"getFullCharacter", "getFullInstance", "getData", "getDataValue",
            "getAllCharacters", "getInstancesByCharacter"}
ViewArgs(op) ==
    IF op = "getFullCharacter" THEN {Args("c1", "c1", "", "", NoValue)}
    ELSE {Args("i1", "c1", "k1", "", NoValue)}
StoreOn(sts, dsk, h) == Store(ReadOf(sts, dsk, h), sts[h].open)
UnregisteredThrows(op) == Throw("Database not registered")
Unregistered(op) ==
    CASE op = "getFullCharacter" -> Return({})
      [] op = "getFullInstance" -> Return({})
      [] op = "getData" -> Return(<< >>)
      [] op = "getDataValue" -> Return({})
      [] op = "getAllCharacters" -> Return({})
      [] op = "getInstancesByCharacter" -> Return({})
ViewRead(op, sts, dsk, m, id, a) ==
    IF MapGet(m, id) = NoStore THEN Unregistered(op)
    ELSE Alone(op, StoreOn(sts, dsk, MapGet(m, id)), a, 0).res
\* The tables a call of a Store leaves, in memory (sql.js) or in the file.
Left(sts, h, out) ==
    IF engine = "async" THEN [sts EXCEPT ![h].rows = out.db] ELSE sts
LeftOnDisk(sts, dsk, h, out) ==
    IF engine = "sync" THEN [dsk EXCEPT ![sts[h].path] = out.db] ELSE dsk
\* this.extensionDatabases.get(id) leaves the Map as it is
LookedOrCreated(m, id) == IF MapHas(m, id) THEN m ELSE MapSet(m, id, NoStore)
Looked(m, id) == m
ViewOf(sts, dsk, m, id) == ViewRead("getAllCharacters", sts, dsk, m, id, NoArgs)

\* The call of a caller of the Registry.  prev is the Store the Map held
\* for the id when the call began (prevWasOpen: its handle then), mine the
\* Store the call registers (mineWasOpen: its handle when supplied), tried
\* the Stores the call has called close() on, in that order, failed those
\* whose close() left the handle open, begun the Stores the Map held when
\* the call began; post is the state the call completed in.
NoRegPost == [got |-> NoStore, gotOpen |-> FALSE, prevOpen |-> FALSE,
              size |-> 0, view |-> NoResult]
IdleCall ==
    [op |-> "", id |-> << >>, pc |-> "idle", h |-> NoStore, snap |-> EmptyDb,
     pos |-> 0, prev |-> NoStore, prevWasOpen |-> FALSE, mine |-> NoStore,
     mineWasOpen |-> FALSE,
     tried |-> << >>, failed |-> {}, begun |-> {}, res |-> "",
     overlapped |-> FALSE, status |-> 0, a |-> NoArgs, result |-> NoResult,
     body |-> << >>, before |-> EmptyDb, after |-> EmptyDb,
     post |-> NoRegPost]

RegPost(k, sts, dsk, m) ==
    [got      |-> MapGet(m, k.id),
     gotOpen  |-> IF MapGet(m, k.id) = NoStore THEN FALSE ELSE sts[MapGet(m, k.id)].open,
     prevOpen |-> IF k.prev = NoStore THEN FALSE ELSE sts[k.prev].open,
     size     |-> MapSize(m),
     view     |-> ViewOf(sts, dsk, m, k.id)]

Pending(k) == k.pc \notin {"idle", "done", "threw"}
OthersInFlight(t) == \E u \in RegCallers \ {t} : Pending(rcalls[u])

BeginCall(t, op, id) ==
    [IdleCall EXCEPT !.op = op, !.id = id, !.pc = "called",
                     !.prev = MapGet(registry, id),
                     !.prevWasOpen = IF MapGet(registry, id) = NoStore THEN FALSE
                                     ELSE stores[MapGet(registry, id)].open,
                     !.begun = Registered(registry),
                     !.overlapped = OthersInFlight(t)]

Returns(k, sts, dsk, m) ==
    [k EXCEPT !.pc = "done", !.res = "returned", !.post = RegPost(k, sts, dsk, m)]
Throws(k, sts, dsk, m) ==
    [k EXCEPT !.pc = "threw", !.res = "threw", !.post = RegPost(k, sts, dsk, m)]

\* The calls of the other callers, marked overlapped when call k of caller
\* t is in flight after this step.
WithCall(t, k) ==
    [u \in RegCallers |->
        IF u = t THEN k
        ELSE IF Pending(k) /\ Pending(rcalls[u])
             THEN [rcalls[u] EXCEPT !.overlapped = TRUE]
             ELSE rcalls[u]]

RegReady(t) == ~Pending(rcalls[t]) /\ rhist.calls < MaxRegCalls
\* The Stores under construction count against MaxStores.
Room ==
    Len(stores) + Cardinality({u \in RegCallers : rcalls[u].pc = "creating"
                                 \/ (Pending(rcalls[u]) /\ rcalls[u].op = "register")})
        < MaxStores
Counted(t, wrote) == [rhist EXCEPT !.calls = @ + 1, !.wrote = wrote, !.actor = t]
Noted(t, wrote) == [rhist EXCEPT !.wrote = wrote, !.actor = t]


\* close() of a better-sqlite3 Store: closes the handle, never throws
CloseStore(sts, h) == [sts EXCEPT ![h].open = FALSE]
RECURSIVE CloseEach(_, _)
CloseEach(sts, hs) ==
    IF hs = << >> THEN sts
    ELSE CloseEach(CloseStore(sts, Head(hs)), Tail(hs))
\* The Stores of the entries after position pos, in the order of the Map.
RECURSIVE InOrder(_, _)
InOrder(m, pos) ==
    IF EntriesAfter(m, pos) = {} THEN << >>
    ELSE <<m.map[NextEntry(m, pos)].h>> \o InOrder(m, m.map[NextEntry(m, pos)].seq)

\* ---- the synchronous Registry and its callers
\* A step of a synchronous call: the whole call, from idle to done.
SyncStep(t, k, sts, dsk, m, ok, wrote) ==
    /\ stores' = sts
    /\ disk' = dsk
    /\ registry' = m
    /\ rcalls' = WithCall(t, IF ok THEN Returns(k, sts, dsk, m) ELSE Throws(k, sts, dsk, m))
    /\ rhist' = Counted(t, wrote)
    /\ UNCHANGED storeVars

\* validateExtensionId throws: the call changes nothing
RejectId(t, op, raws) ==
    /\ RegReady(t)
    /\ \E raw \in raws :
        /\ ~validateExtensionId(raw).ok
        /\ SyncStep(t, BeginCall(t, op, << >>), stores, disk, registry, FALSE, NoStore)

\* new DatabaseManager(dbPath, extensionId) by a holder
Construct(t) ==
    /\ RegReady(t)
    /\ engine = "sync"
    /\ Len(stores) < MaxStores
    /\ \E raw \in RawIds, dbPath \in PathArgs :
        /\ validateExtensionId(raw).ok
        /\ SyncStep(t, [BeginCall(t, "construct", validateExtensionId(raw).id)
                            EXCEPT !.mine = Len(stores) + 1],
                    Append(stores, StoreAt(dbPath, validateExtensionId(raw).id)),
                    disk, registry, TRUE, NoStore)

\* The Store the Map holds for the id is closed, when there is one.
ExistingClosed(sts, m, id) ==
    IF MapGet(m, id) = NoStore THEN sts ELSE CloseStore(sts, MapGet(m, id))
TriedExisting(k) ==
    [k EXCEPT !.tried = IF k.prev = NoStore THEN << >> ELSE <<k.prev>>]

\* registerExtensionDatabase(extensionId, dbManager)
RegisterWith(t) ==
    /\ RegReady(t)
    /\ engine = "sync"
    /\ \E raw \in RawIds, h \in Handles :
        /\ validateExtensionId(raw).ok
        /\ SyncStep(t, [TriedExisting(BeginCall(t, "registerWith", validateExtensionId(raw).id))
                            EXCEPT !.mine = h, !.mineWasOpen = stores[h].open],
                    ExistingClosed(stores, registry, validateExtensionId(raw).id),
                    disk,
                    MapSet(registry, validateExtensionId(raw).id, h),
                    TRUE, NoStore)

\* registerExtensionDatabaseByPath(extensionId)
RegisterByPath(t) ==
    /\ RegReady(t)
    /\ engine = "sync"
    /\ Len(stores) < MaxStores
    /\ \E raw \in RawIds :
        /\ validateExtensionId(raw).ok
        /\ SyncStep(t, [TriedExisting(BeginCall(t, "register", validateExtensionId(raw).id))
                            EXCEPT !.mine = Len(stores) + 1, !.mineWasOpen = TRUE],
                    Append(ExistingClosed(stores, registry, validateExtensionId(raw).id),
                           StoreOf(validateExtensionId(raw).id)),
                    disk,
                    MapSet(registry, validateExtensionId(raw).id, Len(stores) + 1),
                    TRUE, NoStore)

\* registerExtensionDatabaseByPath when new DatabaseManager throws (the
\* directory or the file cannot be opened): the existing Store is closed
\* already and stays in the Map.
RegisterByPathFails(t) ==
    /\ RegReady(t)
    /\ engine = "sync"
    /\ \E raw \in RawIds :
        /\ validateExtensionId(raw).ok
        /\ SyncStep(t, TriedExisting(BeginCall(t, "register", validateExtensionId(raw).id)),
                    ExistingClosed(stores, registry, validateExtensionId(raw).id),
                    disk, registry, FALSE, NoStore)

\* POST /register of the synchronous plugin: the id comes in the body and
\* must be a valid id, a dbPath in the body is refused; the Store is
\* constructed and then registered.
Responds(k, status) == [k EXCEPT !.status = status]
Registers(t, k, id, dbPath) ==
    SyncStep(t, Responds([TriedExisting(k) EXCEPT !.mine = Len(stores) + 1,
                                                  !.mineWasOpen = TRUE], 200),
             Append(ExistingClosed(stores, registry, id), StoreAt(dbPath, id)),
             disk, MapSet(registry, id, Len(stores) + 1), TRUE, NoStore)
Refuses(t, k) ==
    SyncStep(t, Responds(k, 400), stores, disk, registry, TRUE, NoStore)
HttpRegister(t) ==
    /\ RegReady(t)
    /\ engine = "sync"
    /\ Len(stores) < MaxStores
    /\ \E raw \in RawIds \cup {<< >>}, dbPath \in PathArgs :
        IF ~isValidId(raw) \/ dbPath # NoPath
        THEN Refuses(t, BeginCall(t, "POST /register", raw))
        ELSE Registers(t, BeginCall(t, "POST /register", validateExtensionId(raw).id),
                       validateExtensionId(raw).id, dbPath)

\* POST /register of the earlier synchronous plugin: the id comes in the
\* header x-extension-id, the dbPath of the body goes to the constructor.
HttpRegisterEarlier(t) ==
    /\ RegReady(t)
    /\ engine = "sync"
    /\ Len(stores) < MaxStores
    /\ \E raw \in RawIds \cup {<< >>}, dbPath \in PathArgs :
        IF ~isValidId(raw)
        THEN Refuses(t, BeginCall(t, "POST /register", raw))
        ELSE Registers(t, BeginCall(t, "POST /register", validateExtensionId(raw).id),
                       validateExtensionId(raw).id, dbPath)

\* The endpoints on an extension's own data, the id in the header
\* x-extension-id (absent: the empty string).  Every handler answers 400 to
\* an absent header; getAllCharacters also tests isValidId(extensionId), the
\* others go on to getDbManager(extensionId), which validates the id (a throw
\* is answered 500) and looks it up (404 if there is none), and to the Store.
OwnEndpoints == {"GET /characters", "GET /characters/:id", "POST /characters"}
StoreOpOf(endpoint) ==
    CASE endpoint = "GET /characters" -> "getAllCharacters"
      [] endpoint = "GET /characters/:id" -> "getFullCharacter"
      [] endpoint = "POST /characters" -> "upsertCharacter"
NoHeader == << >>
TestsHeader(endpoint) == endpoint = "GET /characters"
StatusOf(endpoint, res) ==
    IF res.tag = "throw" THEN 500
    ELSE IF endpoint = "GET /characters/:id" /\ res.val = {} THEN 404
    ELSE 200
Answers(t, k, status) ==
    SyncStep(t, Responds(k, status), stores, disk, registry, TRUE, NoStore)
Serves(t, k, h, out) ==
    SyncStep(t, [Responds(k, StatusOf(k.op, out.res)) EXCEPT !.mine = h, !.result = out.res],
             Left(stores, h, out), LeftOnDisk(stores, disk, h, out), registry, TRUE,
             IF k.op = "POST /characters" THEN h ELSE NoStore)
HttpOwn(t) ==
    /\ RegReady(t)
    /\ engine = "sync"
    /\ \E endpoint \in OwnEndpoints, header \in RawIds \cup {NoHeader}, c \in RowIds :
        IF header = NoHeader THEN Answers(t, BeginCall(t, endpoint, header), 400)
        ELSE IF TestsHeader(endpoint) /\ ~isValidId(header)
        THEN Answers(t, BeginCall(t, endpoint, header), 400)
        ELSE IF ~validateExtensionId(header).ok
        THEN Answers(t, BeginCall(t, endpoint, header), 500)
        ELSE IF getDbManager(registry, header) = NoStore
        THEN Answers(t, BeginCall(t, endpoint, header), 404)
        ELSE Serves(t, [BeginCall(t, endpoint, header)
                           EXCEPT !.a = Args(c, "", "", "n1", NoValue)],
                    getDbManager(registry, header),
                    Alone(StoreOpOf(endpoint),
                          StoreOn(stores, disk, getDbManager(registry, header)),
                          Args(c, "", "", "n1", NoValue), 0))

\* ---- the bulk endpoints on the bag of an instance
\* PUT /instances/:id/data/override, /merge and /remove.  The body of the
\* first two is a JSON value: an object (its entries in the order of
\* Object.entries), an array or a string; the body of /remove is an object
\* with or without the field keys, a list of strings.  body, before and
\* after of the record of a call that reached the Store are the request's
\* body and the rows of the Store when the handler began and when it
\* answered.
BulkEndpoints == {"PUT /instances/:id/data/override", "PUT /instances/:id/data/merge",
                  "PUT /instances/:id/data/remove"}
Body(kind, entries, list) == [kind |-> kind, entries |-> entries, list |-> list]
Entry(key, value) == <<key, value>>
Mappings ==
    { << >>, <<Entry("k1", JsString(<<"7">>))>>, <<Entry("k1", JsString(<< >>))>>,
      <<Entry(" ", JsNumber(<<"8">>))>>,
      <<Entry("k2", JsNumber(<<"8">>)), Entry("k1", JsNumber(<<"8">>))>> }
KeyLists == {<< >>, <<"k1">>, <<"k2", "k1">>, <<"k2", "k2">>, <<" ">>}
BodiesOf(endpoint) ==
    IF endpoint = "PUT /instances/:id/data/remove"
    THEN {Body("keys", << >>, list) : list \in KeyLists} \cup {Body("object", << >>, << >>)}
    ELSE {Body("object", m, << >>) : m \in Mappings}
             \cup {Body("array", << >>, << >>), Body("string", << >>, << >>)}

\* The :id of the route, as the characters isValidId tests.
RouteIds == {"i1", "i.1"}
RouteText(id) ==
    CASE id = "i1" -> <<"i", "1">>
      [] id = "i.1" -> <<"i", ".", "1">>

\* The body validation of the handler: 400 when it fails.  The synchronous
\* handlers refuse an array as the mapping; both refuse a missing keys.
BadBody(endpoint, body) ==
    IF endpoint = "PUT /instances/:id/data/remove" THEN body.kind # "keys"
    ELSE body.kind = "string" \/ (engine = "sync" /\ body.kind = "array")
Malformed(endpoint, id, body) == ~isValidId(RouteText(id)) \/ BadBody(endpoint, body)

\* key.trim().length > 0, tested by the synchronous handlers alone
BlankKey(key) == key \in {"", " "}
Skipped(key) == engine = "sync" /\ BlankKey(key)

\* for (const [key, value] of Object.entries(data)) upsertData(id, key, value):
\* a throw ends the loop, the keys written before it stay written
RECURSIVE UpsertEach(_, _, _)
UpsertEach(out, id, entries) ==
    IF entries = << >> \/ out.res.tag = "throw" THEN out
    ELSE IF Skipped(Head(entries)[1]) THEN UpsertEach(out, id, Tail(entries))
    ELSE UpsertEach(Alone("upsertData", Store(out.db, out.open),
                          Args(id, "", Head(entries)[1], "", Head(entries)[2]), 0),
                    id, Tail(entries))

\* for (const key of keys) if (deleteDataValue(id, key)) removedCount++
Removed(out, count) ==
    IF out.res.tag = "throw" THEN out
    ELSE Outcome(out.db, out.open, Return(IF out.res.val THEN count + 1 ELSE count))
RECURSIVE DeleteEach(_, _, _)
DeleteEach(out, id, list) ==
    IF list = << >> \/ out.res.tag = "throw" THEN out
    ELSE IF Skipped(Head(list)) THEN DeleteEach(out, id, Tail(list))
    ELSE DeleteEach(Removed(Alone("deleteDataValue", Store(out.db, out.open),
                                  Args(id, "", Head(list), "", NoValue), 0),
                            out.res.val),
                    id, Tail(list))

\* the Store calls of the handler, on Store st
BulkRun(endpoint, st, id, body) ==
    CASE endpoint = "PUT /instances/:id/data/override" ->
           UpsertEach(Alone("clearInstanceData", st, Args(id, "", "", "", NoValue), 0),
                      id, body.entries)
      [] endpoint = "PUT /instances/:id/data/merge" ->
           UpsertEach(Outcome(st.db, st.open, Return(TRUE)), id, body.entries)
      [] endpoint = "PUT /instances/:id/data/remove" ->
           DeleteEach(Outcome(st.db, st.open, Return(0)), id, body.list)

BulkCall(t, endpoint, header, id) ==
    [BeginCall(t, endpoint, header) EXCEPT !.a = Args(id, "", "", "", NoValue)]
BulkServes(t, k, h, body, out) ==
    Serves(t, [k EXCEPT !.body = body, !.before = StoreOn(stores, disk, h).db,
                        !.after = out.db], h, out)
BulkHeaders == {NoHeader, <<"a">>, <<" ">>}
HttpBulk(t) ==
    /\ RegReady(t)
    /\ \E endpoint \in BulkEndpoints, header \in BulkHeaders, id \in RouteIds :
       \E body \in BodiesOf(endpoint) :
        IF header = NoHeader THEN Answers(t, BulkCall(t, endpoint, header, id), 400)
        ELSE IF Malformed(endpoint, id, body)
        THEN Answers(t, BulkCall(t, endpoint, header, id), 400)
        ELSE IF ~validateExtensionId(header).ok
        THEN Answers(t, BulkCall(t, endpoint, header, id), 500)
        ELSE IF getDbManager(registry, header) = NoStore
        THEN Answers(t, BulkCall(t, endpoint, header, id), 404)
        ELSE BulkServes(t, BulkCall(t, endpoint, header, id),
                        getDbManager(registry, header), body,
                        BulkRun(endpoint,
                                StoreOn(stores, disk, getDbManager(registry, header)),
                                id, body))

\* ---- PUT /instances/:id/data/override beside the calls of other requests
\* The handler on the Store of this plugin, registered for the extension
\* OwnId and for no other.  The synchronous handler runs whole.  The
\* asynchronous one awaits clearInstanceData and then upsertData for each
\* entry: each is a call of the Store made by the request's caller, and the
\* handler goes on when the call has settled.
OwnId == <<"a">>
OverrideBodies ==
    { Body("object", << >>, << >>), Body("string", << >>, << >>),
      Body("object", <<Entry("k2", JsNumber(<<"8">>)), Entry("k1", JsNumber(<<"8">>))>>,
           << >>) }
Request(id, body) ==
    [NoRequest EXCEPT !.pc = "running", !.id = id, !.entries = body.entries,
                      !.left = body.entries, !.before = db, !.seq = calls + 1]
Answer(r, status) == [r EXCEPT !.pc = "answered", !.status = status]
\* the handler answers without a call of the Store
Refused(t, id, body, status) ==
    /\ tasks' = [tasks EXCEPT ![t] =
                    [IdleTask EXCEPT !.op = "PUT /instances/:id/data/override",
                                     !.pc = "done", !.seq = calls + 1,
                                     !.req = Answer(Request(id, body), status)]]
    /\ UNCHANGED <<db, open, file, microQ, closed>>
\* the synchronous handler and its Store calls
Overridden(t, id, body, out) ==
    Enter(t, "PUT /instances/:id/data/override",
          Finish(Store(out.db, out.open),
                 [NewTask(t, "PUT /instances/:id/data/override",
                          Args(id, "", "", "", NoValue), 0)
                     EXCEPT !.req = Answer(Request(id, body),
                                           IF out.res.tag = "throw" THEN 500 ELSE 200)],
                 out.res))
\* a call of the Store made by the asynchronous handler, up to its first await
Awaits(t, op, a, r) ==
    Enter(t, op, AsyncBlock(Store(db, open), [NewTask(t, op, a, 0) EXCEPT !.req = r]))
Override(t) ==
    /\ Ready(t)
    /\ calls' = calls + 1
    /\ \E header \in {NoHeader, OwnId, <<"b">>, <<" ">>}, id \in RouteIds,
          body \in OverrideBodies :
        IF header = NoHeader \/ Malformed("PUT /instances/:id/data/override", id, body)
        THEN Refused(t, id, body, 400)
        ELSE IF ~validateExtensionId(header).ok THEN Refused(t, id, body, 500)
        ELSE IF validateExtensionId(header).id # OwnId THEN Refused(t, id, body, 404)
        ELSE IF engine = "sync"
        THEN Overridden(t, id, body,
                        BulkRun("PUT /instances/:id/data/override", Store(db, open), id, body))
        ELSE Awaits(t, "clearInstanceData", Args(id, "", "", "", NoValue), Request(id, body))
    /\ UNCHANGED <<regVars, engine, byName, clock>>

\* the call the asynchronous handler awaited has settled: a throw is
\* answered with 500, the next entry is written, or the handler answers
OverrideGoesOn(t) ==
    /\ tasks[t].pc = "done"
    /\ tasks[t].req.pc = "running"
    /\ IF tasks[t].res.tag = "throw" \/ tasks[t].req.left = << >>
       THEN /\ tasks' = [tasks EXCEPT ![t].req =
                           Answer(@, IF tasks[t].res.tag = "throw" THEN 500 ELSE 200)]
            /\ UNCHANGED <<db, open, file, microQ, closed>>
       ELSE Awaits(t, "upsertData",
                   Args(tasks[t].req.id, "", Head(tasks[t].req.left)[1], "",
                        Head(tasks[t].req.left)[2]),
                   [tasks[t].req EXCEPT !.left = Tail(@)])
    /\ UNCHANGED <<regVars, engine, byName, clock, calls>>

\* deregisterExtensionDatabase(extensionId): the entry is deleted, the Store
\* is not closed
Deregister_sync(t) ==
    /\ RegReady(t)
    /\ engine = "sync"
    /\ \E raw \in RawIds :
        /\ validateExtensionId(raw).ok
        /\ SyncStep(t, BeginCall(t, "deregister", validateExtensionId(raw).id),
                    stores, disk,
                    MapDelete(registry, validateExtensionId(raw).id),
                    TRUE, NoStore)

\* closeAll(): nothing when the Map is empty; else close() on the Store of
\* every entry, each in its own try, then a new Map.
CloseAll_sync(t) ==
    /\ RegReady(t)
    /\ engine = "sync"
    /\ SyncStep(t, [BeginCall(t, "closeAll", << >>) EXCEPT !.tried = InOrder(registry, 0)],
                CloseEach(stores, InOrder(registry, 0)),
                disk, MapClear(registry), TRUE, NoStore)

\* A holder writes through a Store it holds: a character row is inserted or
\* deleted in the file.  A closed Store throws.
WriteOp(present) == IF present THEN "upsertCharacter" ELSE "deleteCharacter"
WriteTask(c, present) ==
    [IdleTask EXCEPT !.op = WriteOp(present), !.a = Args(c, "", "", "n1", NoValue)]
Written(rows, c, present) ==
    IF engine = "sync"
    THEN SyncCall(WriteOp(present), Store(rows, TRUE), WriteTask(c, present).a, 0, 0).db
    ELSE Drive(Store(rows, TRUE), WriteTask(c, present)).db
Write_sync(t) ==
    /\ RegReady(t)
    /\ engine = "sync"
    /\ \E h \in Handles, c \in RowIds, present \in BOOLEAN :
        IF stores[h].open
        THEN SyncStep(t, [BeginCall(t, "write", stores[h].id) EXCEPT !.h = h],
                      stores,
                      [disk EXCEPT ![stores[h].path] = Written(@, c, present)],
                      registry, TRUE, h)
        ELSE SyncStep(t, [BeginCall(t, "write", stores[h].id) EXCEPT !.h = h],
                      stores, disk, registry, FALSE, NoStore)

\* A holder closes a Store it holds.
HolderClose_sync(t) ==
    /\ RegReady(t)
    /\ engine = "sync"
    /\ \E h \in Handles :
        SyncStep(t, [BeginCall(t, "close", stores[h].id) EXCEPT !.h = h],
                 CloseStore(stores, h), disk, registry, TRUE, NoStore)

\* ---- the cross-extension view
\* A read method of the view, of either Registry: the id is validated (a
\* throw leaves everything as it is), the Store is looked up, and the call
\* is the Store's.
ViewStep(t, k, sts, dsk, m) ==
    /\ stores' = sts
    /\ disk' = dsk
    /\ registry' = m
    /\ rcalls' = WithCall(t, k)
    /\ rhist' = Counted(t, NoStore)
    /\ UNCHANGED storeVars
ViewThrows(t, op, raw) ==
    ViewStep(t, Throws(BeginCall(t, op, raw), stores, disk, registry),
             stores, disk, registry)
ViewReturns(t, k, h, out) ==
    IF h = NoStore
    THEN ViewStep(t, [k EXCEPT !.result = Unregistered(k.op)],
                  stores, disk, Looked(registry, k.id))
    ELSE ViewStep(t, [k EXCEPT !.result = out.res],
                  Left(stores, h, out), LeftOnDisk(stores, disk, h, out),
                  Looked(registry, k.id))
ViewCall(op, id, a) ==
    IF MapGet(registry, id) = NoStore THEN Outcome(EmptyDb, FALSE, NoResult)
    ELSE Alone(op, StoreOn(stores, disk, MapGet(registry, id)), a, 0)
View(t, ops) ==
    /\ RegReady(t)
    /\ \E op \in ops, raw \in RawIds : \E a \in ViewArgs(op) :
        IF validateExtensionId(raw).ok
        THEN ViewReturns(t, [Returns(BeginCall(t, op, validateExtensionId(raw).id),
                                     stores, disk, registry) EXCEPT !.a = a],
                         MapGet(registry, validateExtensionId(raw).id),
                         ViewCall(op, validateExtensionId(raw).id, a))
        ELSE ViewThrows(t, op, raw)

\* getDbManager(extensionId)
Get(t) ==
    /\ RegReady(t)
    /\ \E raw \in RawIds :
        IF validateExtensionId(raw).ok
        THEN ViewStep(t, [Returns(BeginCall(t, "getDbManager", validateExtensionId(raw).id),
                                  stores, disk, registry)
                             EXCEPT !.mine = getDbManager(registry, raw)],
                      stores, disk, Looked(registry, validateExtensionId(raw).id))
        ELSE ViewThrows(t, "getDbManager", raw)

\* ---- the asynchronous Registry and its callers
\* A step of an asynchronous call; the call k may be in flight after it.
AsyncStep(t, k, sts, dsk, m, count, wrote) ==
    /\ stores' = sts
    /\ disk' = dsk
    /\ registry' = m
    /\ rcalls' = WithCall(t, k)
    /\ rhist' = IF count THEN Counted(t, wrote) ELSE Noted(t, wrote)
    /\ UNCHANGED storeVars

\* await dbManager.close(), up to its await: export() throws on a closed
\* handle and close() swallows it (closed); else fs.writeFile is started.
Closing(k, sts, h) ==
    IF sts[h].open
    THEN [k EXCEPT !.pc = "closing", !.h = h, !.snap = sts[h].rows,
                   !.tried = Append(@, h)]
    ELSE [k EXCEPT !.pc = "closed", !.h = h, !.tried = Append(@, h)]

\* await DatabaseManager.create(id), up to its awaits (mkdir, readFile)
Creating(k) == [k EXCEPT !.pc = "creating"]

\* for (const [id, dbManager] of this.extensionDatabases): the loop from
\* position k.pos up to the next await, or to its end (pc = "swept").
RECURSIVE Sweep(_, _, _)
Sweep(k, sts, m) ==
    IF EntriesAfter(m, k.pos) = {} THEN [k EXCEPT !.pc = "swept"]
    ELSE IF sts[m.map[NextEntry(m, k.pos)].h].open
    THEN Closing([k EXCEPT !.pos = m.map[NextEntry(m, k.pos)].seq],
                 sts, m.map[NextEntry(m, k.pos)].h)
    ELSE Sweep([k EXCEPT !.pos = m.map[NextEntry(m, k.pos)].seq,
                         !.tried = Append(@, m.map[NextEntry(m, k.pos)].h)],
               sts, m)

\* closeAll() goes on with the next entry, and with clear() after the last;
\* a close() that failed has only been logged.
CloseAllAborts(t, k, sts, dsk, m, count) ==
    IF k.failed # {}
    THEN AsyncStep(t, Throws(k, sts, dsk, m), sts, dsk, m, count, NoStore)
    ELSE IF Sweep(k, sts, m).pc = "swept"
    THEN AsyncStep(t, Returns(Sweep(k, sts, m), sts, dsk, MapClear(m)),
                   sts, dsk, MapClear(m), count, NoStore)
    ELSE AsyncStep(t, Sweep(k, sts, m), sts, dsk, m, count, NoStore)
CloseAllGoesOn(t, k, sts, dsk, m, count) ==
    IF Sweep(k, sts, m).pc = "swept"
    THEN AsyncStep(t, Returns(Sweep(k, sts, m), sts, dsk, MapClear(m)),
                   sts, dsk, MapClear(m), count, NoStore)
    ELSE AsyncStep(t, Sweep(k, sts, m), sts, dsk, m, count, NoStore)

\* What a call does once the close() it awaited has resolved.
AfterClose(t, k, sts, dsk, m, count) ==
    CASE k.op = "register" ->
           AsyncStep(t, Creating(k), sts, dsk, m, count, NoStore)
      [] k.op = "deregister" ->
           AsyncStep(t, Returns(k, sts, dsk, MapDelete(m, k.id)), sts, dsk,
                     MapDelete(m, k.id), count, NoStore)
      [] k.op = "closeAll" -> CloseAllGoesOn(t, k, sts, dsk, m, count)
      [] OTHER ->
           AsyncStep(t, Returns(k, sts, dsk, m), sts, dsk, m, count, NoStore)

\* A call that reaches an await of close(): it goes on at once when the
\* Store was closed already, and waits for fs.writeFile otherwise.
Await(t, k, count) ==
    IF k.pc = "closed"
    THEN AfterClose(t, k, stores, disk, registry, count)
    ELSE AsyncStep(t, k, stores, disk, registry, count, NoStore)

\* registerExtensionDatabase(extensionId)
Register_async(t) ==
    /\ RegReady(t)
    /\ engine = "async"
    /\ Room
    /\ \E raw \in RawIds :
        /\ validateExtensionId(raw).ok
        /\ IF MapGet(registry, validateExtensionId(raw).id) = NoStore
           THEN AsyncStep(t, Creating(BeginCall(t, "register", validateExtensionId(raw).id)),
                          stores, disk, registry, TRUE, NoStore)
           ELSE Await(t, Closing(BeginCall(t, "register", validateExtensionId(raw).id),
                                 stores, MapGet(registry, validateExtensionId(raw).id)),
                      TRUE)

\* deregisterExtensionDatabase(extensionId): await dbManager.close(), then
\* the entry of the id is deleted
Deregister_async(t) ==
    /\ RegReady(t)
    /\ engine = "async"
    /\ \E raw \in RawIds :
        /\ validateExtensionId(raw).ok
        /\ IF MapGet(registry, validateExtensionId(raw).id) = NoStore
           THEN AsyncStep(t, Returns(BeginCall(t, "deregister", validateExtensionId(raw).id),
                                     stores, disk, registry),
                          stores, disk, registry, TRUE, NoStore)
           ELSE Await(t, Closing(BeginCall(t, "deregister", validateExtensionId(raw).id),
                                 stores, MapGet(registry, validateExtensionId(raw).id)),
                      TRUE)

\* closeAll(): nothing when the Map is empty; else await close() on the
\* Store of every entry, then clear()
CloseAll_async(t) ==
    /\ RegReady(t)
    /\ engine = "async"
    /\ IF MapSize(registry) = 0
       THEN AsyncStep(t, Returns(BeginCall(t, "closeAll", << >>), stores, disk, registry),
                      stores, disk, registry, TRUE, NoStore)
       ELSE AfterClose(t, BeginCall(t, "closeAll", << >>), stores, disk, registry, TRUE)

\* DatabaseManager.create(extensionId) by a holder
Create_async(t) ==
    /\ RegReady(t)
    /\ engine = "async"
    /\ Room
    /\ \E raw \in RawIds :
        /\ validateExtensionId(raw).ok
        /\ AsyncStep(t, Creating(BeginCall(t, "create", validateExtensionId(raw).id)),
                     stores, disk, registry, TRUE, NoStore)

\* A holder closes a Store it holds.
HolderClose_async(t) ==
    /\ RegReady(t)
    /\ engine = "async"
    /\ \E h \in Handles :
        Await(t, Closing(BeginCall(t, "close", stores[h].id), stores, h), TRUE)

\* A holder writes through a Store it holds: a character row is inserted or
\* deleted in memory, then flushToDisk.  A closed Store throws.
Write_async(t) ==
    /\ RegReady(t)
    /\ engine = "async"
    /\ \E h \in Handles, c \in RowIds, present \in BOOLEAN :
        IF stores[h].open
        THEN AsyncStep(t, [BeginCall(t, "write", stores[h].id)
                              EXCEPT !.pc = "flushing", !.h = h,
                                     !.snap = Written(stores[h].rows, c, present)],
                       [stores EXCEPT ![h].rows = Written(@, c, present)],
                       disk, registry, TRUE, h)
        ELSE AsyncStep(t, Throws([BeginCall(t, "write", stores[h].id) EXCEPT !.h = h],
                                 stores, disk, registry),
                       stores, disk, registry, TRUE, NoStore)

\* fs.writeFile of a close() resolves: the file holds the exported rows,
\* close() closes the handle and the call goes on.
Flushed(dsk, sts, k) == [dsk EXCEPT ![sts[k.h].path] = k.snap]
RegWriteFileDone(t) ==
    /\ rcalls[t].pc = "closing"
    /\ AfterClose(t, rcalls[t], CloseStore(stores, rcalls[t].h),
                  Flushed(disk, stores, rcalls[t]), registry, FALSE)

\* fs.writeFile of a close() rejects: close() logs it and leaves the handle
\* open, and the call goes on.
RegWriteFileFails(t) ==
    /\ rcalls[t].pc = "closing"
    /\ AfterClose(t, [rcalls[t] EXCEPT !.failed = @ \cup {rcalls[t].h}],
                  stores, disk, registry, FALSE)

\* fs.writeFile of a holder's write resolves, or rejects and the write
\* throws.
FlushDone(t) ==
    /\ rcalls[t].pc = "flushing"
    /\ AsyncStep(t, Returns(rcalls[t], stores, Flushed(disk, stores, rcalls[t]), registry),
                 stores, Flushed(disk, stores, rcalls[t]), registry,
                 FALSE, rcalls[t].h)
FlushFails(t) ==
    /\ rcalls[t].pc = "flushing"
    /\ AsyncStep(t, Throws(rcalls[t], stores, disk, registry),
                 stores, disk, registry, FALSE, NoStore)

\* fs.readFile of create() resolves (or the file is absent): the Store is
\* constructed with the rows of its file; register then sets the entry.
Loaded(id, dsk) == [StoreOf(id) EXCEPT !.rows = dsk[StoreOf(id).path]]
ReadFileDone(t) ==
    /\ rcalls[t].pc = "creating"
    /\ IF rcalls[t].op = "register"
       THEN AsyncStep(t, Returns([rcalls[t] EXCEPT !.mine = Len(stores) + 1,
                                                   !.mineWasOpen = TRUE],
                                 Append(stores, Loaded(rcalls[t].id, disk)), disk,
                                 MapSet(registry, rcalls[t].id, Len(stores) + 1)),
                      Append(stores, Loaded(rcalls[t].id, disk)), disk,
                      MapSet(registry, rcalls[t].id, Len(stores) + 1), FALSE, NoStore)
       ELSE AsyncStep(t, Returns([rcalls[t] EXCEPT !.mine = Len(stores) + 1],
                                 Append(stores, Loaded(rcalls[t].id, disk)), disk, registry),
                      Append(stores, Loaded(rcalls[t].id, disk)), disk, registry,
                      FALSE, NoStore)

\* mkdir or readFile of create() rejects: the call throws
ReadFileFails(t) ==
    /\ rcalls[t].pc = "creating"
    /\ AsyncStep(t, Throws(rcalls[t], stores, disk, registry),
                 stores, disk, registry, FALSE, NoStore)

\* ---- the Registry with its callers
Registering(t) ==
    \/ RejectId(t, "register", RawIds)
    \/ Construct(t)
    \/ RegisterWith(t)
    \/ RegisterByPath(t)
    \/ RegisterByPathFails(t)
    \/ Register_async(t)
    \/ RegWriteFileDone(t)
    \/ RegWriteFileFails(t)
    \/ ReadFileDone(t)
    \/ ReadFileFails(t)

Holding(t) ==
    \/ Write_sync(t)
    \/ HolderClose_sync(t)
    \/ Create_async(t)
    \/ HolderClose_async(t)
    \/ Write_async(t)
    \/ FlushDone(t)
    \/ FlushFails(t)

NextRegistry ==
    \E t \in RegCallers :
        \/ View(t, ViewOps)
        \/ Get(t)
        \/ Registering(t)
        \/ HttpRegister(t)
        \/ HttpRegisterEarlier(t)
        \/ HttpOwn(t)
        \/ Deregister_sync(t)
        \/ Deregister_async(t)
        \/ CloseAll_sync(t)
        \/ CloseAll_async(t)
        \/ Holding(t)

\* ------------------------------------------------------- initial states
\* The constructor opens the file of the extension: the tables are those an
\* earlier run left there.
Row(name, at) == [name |-> name, createdAt |-> at, updatedAt |-> at]
InstRow(cid, name, at) ==
    [characterId |-> cid, name |-> name, createdAt |-> at, updatedAt |-> at]
DataRow(text, at) == [value |-> text, updatedAt |-> at]

SeedOne ==
    [characters |-> [c \in {"c1"} |-> Row("n1", 0)],
     instances  |-> [i \in {"i1"} |-> InstRow("c1", SqlNull, 0)],
     data       |-> [p \in {<<"i1", "k1">>} |-> DataRow(<<"7">>, 0)]]
SeedTwo ==
    [characters |-> [c \in {"c1", "c2"} |-> Row(SqlNull, 0)],
     instances  |-> [i \in {"i1", "i2"} |-> InstRow("c1", SqlNull, 0)],
     data       |-> [p \in {<<"i1", "k1">>, <<"i2", "k1">>} |-> DataRow(<<"a">>, 0)]]
Seeds == {EmptyDb, SeedOne, SeedTwo}

InitStores ==
    /\ engine \in Engines
    /\ byName \in IF engine = "async" THEN ByNames ELSE {"bound"}
    /\ db \in Seeds
    /\ open = TRUE
    /\ file = db
    /\ clock = 0
    /\ calls = 0
    /\ tasks = [t \in Tasks |-> IdleTask]
    /\ microQ = << >>
    /\ closed = FALSE
    /\ stores = << >>
    /\ disk = [p \in Paths |-> IF p = DbPath(<<"a">>) THEN SeedOne ELSE EmptyDb]
    /\ registry = EmptyMap
    /\ rcalls = [t \in RegCallers |-> IdleCall]
    /\ rhist = [calls |-> 0, wrote |-> NoStore, actor |-> "none"]
Init == InitStores /\ idcall = NoIds

EventLoop(t) ==
    \/ Resume
    \/ WriteFileDone(t)
    \/ WriteFileFails(t)
    \/ Tick

NextStore ==
    \E t \in Tasks :
        \/ CallUpsertCharacter(t, IdArgs(CharIds), NameArgs, Faults)
        \/ CallGetCharacter(t, CharIds)
        \/ CallGetAllCharacters(t)
        \/ CallDeleteCharacter(t, IdArgs(CharIds), Faults)
        \/ CallUpsertInstance(t, IdArgs(InstIds), IdArgs(CharIds), NameArgs, Faults)
        \/ CallGetInstance(t, InstIds)
        \/ CallGetInstancesByCharacter(t, CharIds)
        \/ CallDeleteInstance(t, IdArgs(InstIds), Faults)
        \/ CallUpsertData(t, IdArgs(InstIds), IdArgs(Keys), Values, Faults)
        \/ CallGetData(t, InstIds)
        \/ CallGetDataValue(t, IdArgs(InstIds), IdArgs(Keys))
        \/ CallDeleteDataValue(t, IdArgs(InstIds), IdArgs(Keys), Faults)
        \/ CallGetFullCharacter(t, CharIds)
        \/ CallGetFullInstance(t, InstIds)
        \/ CallClearInstanceData(t, IdArgs(InstIds), Faults)
        \/ CallClose(t)
        \/ EventLoop(t)

Next == NextStore \/ NextRegistry

Spec == Init /\ [][Next]_vars

\* the sanitizer and the validator applied to given strings
NextIds == Sanitize \/ SanitizeAgain \/ Validate
InitIds ==
    /\ InitStores
    /\ engine = "sync"
    /\ db = EmptyDb
    /\ idcall \in {Given(build, x) : build \in Builds, x \in GivenIds}
SpecIds == InitIds /\ [][NextIds]_vars

\* the Registry alone, over a Store directory without files
InitRegistry == Init /\ db = EmptyDb /\ byName = "bound"
SpecRegistry == InitRegistry /\ [][NextRegistry]_vars

\* registering, deregistering, and writing through the Stores
NextDeregister ==
    \E t \in RegCallers :
        \/ Construct(t)
        \/ RegisterWith(t)
        \/ Register_async(t)
        \/ RegWriteFileDone(t)
        \/ RegWriteFileFails(t)
        \/ ReadFileDone(t)
        \/ ReadFileFails(t)
        \/ Deregister_sync(t)
        \/ Deregister_async(t)
        \/ Write_sync(t)
        \/ Write_async(t)
        \/ FlushDone(t)
        \/ FlushFails(t)
SpecDeregister == InitRegistry /\ [][NextDeregister]_vars

\* holders of Stores of several extensions, writing
NextIsolation ==
    \E t \in RegCallers :
        \/ Construct(t)
        \/ Create_async(t)
        \/ ReadFileDone(t)
        \/ Write_sync(t)
        \/ Write_async(t)
        \/ FlushDone(t)
        \/ FlushFails(t)
SpecIsolation == InitRegistry /\ [][NextIsolation]_vars

\* Stores constructed and registered with and without a path
NextPaths ==
    \E t \in RegCallers :
        \/ Construct(t)
        \/ RegisterWith(t)
        \/ RegisterByPath(t)
        \/ HttpRegister(t)
        \/ HttpRegisterEarlier(t)
        \/ Create_async(t)
        \/ ReadFileDone(t)
SpecPaths == InitRegistry /\ [][NextPaths]_vars

\* the view over registered and unregistered ids, the Stores being written
NextView ==
    \E t \in RegCallers :
        \/ View(t, ViewOps)
        \/ RegisterByPath(t)
        \/ Register_async(t)
        \/ ReadFileDone(t)
        \/ Write_sync(t)
        \/ Write_async(t)
        \/ FlushDone(t)
SpecView == InitRegistry /\ [][NextView]_vars

\* lookups and reads of the view among the calls that change the Map
NextFrame ==
    \E t \in RegCallers :
        \/ View(t, {"getAllCharacters", "getDataValue"})
        \/ Get(t)
        \/ RegisterWith(t)
        \/ RegisterByPath(t)
        \/ Register_async(t)
        \/ RegWriteFileDone(t)
        \/ ReadFileDone(t)
        \/ Deregister_sync(t)
        \/ CloseAll_sync(t)
        \/ Deregister_async(t)
        \/ CloseAll_async(t)
SpecFrame == InitRegistry /\ [][NextFrame]_vars

\* writes and close() with the engine or the file system failing
NextFailures ==
    \E t \in Tasks :
        \/ CallClose(t)
        \/ CallUpsertCharacter(t, {"c2"}, {"n2"}, {0, 1})
        \/ CallDeleteCharacter(t, {"c1"}, {0, 1})
        \/ CallUpsertInstance(t, {"i2"}, {"c1"}, {JsUndefined}, {0, 1})
        \/ CallUpsertData(t, {"i1"}, {"k1"}, {JsNumber(<<"8">>)}, {0, 1})
        \/ CallGetCharacter(t, {"c1"})
        \/ Resume
        \/ WriteFileDone(t)
        \/ WriteFileFails(t)
SpecFailures == Init /\ [][NextFailures]_vars

\* the HTTP endpoints of the synchronous plugin
NextHttp ==
    \E t \in RegCallers :
        \/ HttpRegister(t)
        \/ HttpOwn(t)
        \/ HolderClose_sync(t)
InitHttp == InitRegistry /\ engine = "sync"
SpecHttp == InitHttp /\ [][NextHttp]_vars

\* rows written and deleted at every level, by overlapping callers
NextIntegrity ==
    \E t \in Tasks :
        \/ CallUpsertCharacter(t, {"c1"}, {"n2"}, NoFault)
        \/ CallUpsertInstance(t, {"i1", "i2"}, {"c1"}, {JsUndefined}, NoFault)
        \/ CallUpsertData(t, {"i1", "i2"}, {"k1"}, {JsNumber(<<"8">>)}, NoFault)
        \/ CallDeleteInstance(t, {"i1"}, NoFault)
        \/ CallDeleteCharacter(t, {"c1"}, NoFault)
        \/ CallClearInstanceData(t, {"i1"}, NoFault)
        \/ Resume
        \/ WriteFileDone(t)
SpecIntegrity == Init /\ [][NextIntegrity]_vars

\* the Registry's own calls, no holder closing a Store
NextGet ==
    \E t \in RegCallers :
        \/ Construct(t)
        \/ RegisterWith(t)
        \/ RegisterByPath(t)
        \/ Deregister_sync(t)
        \/ CloseAll_sync(t)
        \/ Register_async(t)
        \/ RegWriteFileDone(t)
        \/ ReadFileDone(t)
        \/ Deregister_async(t)
        \/ CloseAll_async(t)
SpecGet == InitRegistry /\ [][NextGet]_vars

\* register calls beside register calls, every file operation succeeding
NextOverlap ==
    \E t \in RegCallers :
        \/ RegisterByPath(t)
        \/ Register_async(t)
        \/ RegWriteFileDone(t)
        \/ ReadFileDone(t)
SpecOverlap == InitRegistry /\ [][NextOverlap]_vars

\* the bulk endpoints on the Stores registered: one client sends the
\* requests, every caller registers
NextBulk ==
    \/ \E t \in RegCallers :
        \/ RegisterByPath(t)
        \/ Register_async(t)
        \/ RegWriteFileDone(t)
        \/ ReadFileDone(t)
    \/ HttpBulk("r1")
SpecBulk == InitRegistry /\ [][NextBulk]_vars

\* a request to override the bag of an instance, and reads of the bag
NextRace ==
    \/ Override("t1")
    \/ OverrideGoesOn("t1")
    \/ CallGetData("t2", {"i1"})
    \/ Resume
    \/ \E t \in Tasks : WriteFileDone(t)
SpecRace == Init /\ [][NextRace]_vars

\* registering and closing all
NextCloseAll ==
    \E t \in RegCallers :
        \/ RegisterByPath(t)
        \/ Register_async(t)
        \/ RegWriteFileDone(t)
        \/ RegWriteFileFails(t)
        \/ ReadFileDone(t)
        \/ HolderClose_sync(t)
        \/ HolderClose_async(t)
        \/ CloseAll_sync(t)
        \/ CloseAll_async(t)
SpecCloseAll == InitRegistry /\ [][NextCloseAll]_vars

\* registering and registering again
NextRegister == \E t \in RegCallers : Registering(t)
SpecRegister == InitRegistry /\ [][NextRegister]_vars

\* ------------------------------------------- specifications by topic
\* Each runs the same Store from the same initial states; they differ in
\* the operations the callers use and in the arguments they pass.

\* cascade deletes, upserts and their failures
NextCascade ==
    \E t \in Tasks :
        \/ CallUpsertCharacter(t, {"c2"}, {"n2"}, {0, 1})
        \/ CallUpsertInstance(t, {"i1", "i2"}, {"c1", "c2"}, {JsUndefined}, {0, 1})
        \/ CallDeleteCharacter(t, {"c1", "c2"}, {0, 1, 2, 3})
        \/ CallDeleteInstance(t, {"i1"}, {0, 1, 2})
        \/ CallClearInstanceData(t, {"i1"}, {0, 1})
        \/ Resume
        \/ WriteFileDone(t)
        \/ WriteFileFails(t)
SpecCascade == Init /\ [][NextCascade]_vars

\* reads beside writes
NextReads ==
    \E t \in Tasks :
        \/ CallDeleteCharacter(t, {"c1"}, NoFault)
        \/ CallDeleteInstance(t, {"i1"}, NoFault)
        \/ CallUpsertData(t, {"i1"}, {"k1"}, {JsNumber(<<"8">>)}, NoFault)
        \/ CallGetCharacter(t, {"c1"})
        \/ CallGetInstance(t, {"i1"})
        \/ CallGetInstancesByCharacter(t, {"c1"})
        \/ CallGetData(t, {"i1"})
        \/ CallGetFullCharacter(t, {"c1"})
        \/ CallGetFullInstance(t, {"i1"})
        \/ Resume
        \/ WriteFileDone(t)
SpecReads == Init /\ [][NextReads]_vars

\* writers beside writers
NextOrder ==
    \E t \in Tasks :
        \/ CallUpsertCharacter(t, {"c1", "c2"}, {"n2", JsUndefined}, NoFault)
        \/ CallUpsertInstance(t, {"i1", "i2"}, {"c1", "c2"}, {JsUndefined}, NoFault)
        \/ CallDeleteCharacter(t, {"c1"}, NoFault)
        \/ CallGetCharacter(t, {"c1", "c2"})
        \/ Resume
        \/ WriteFileDone(t)
SpecOrder == Init /\ [][NextOrder]_vars

\* every operation, before and after close()
NextClose ==
    \E t \in Tasks :
        \/ CallClose(t)
        \/ CallUpsertCharacter(t, {"c2"}, {"n2"}, NoFault)
        \/ CallGetCharacter(t, {"c1"})
        \/ CallGetAllCharacters(t)
        \/ CallDeleteCharacter(t, {"c1"}, NoFault)
        \/ CallUpsertInstance(t, {"i2"}, {"c1"}, {JsUndefined}, NoFault)
        \/ CallGetInstance(t, {"i1"})
        \/ CallGetInstancesByCharacter(t, {"c1"})
        \/ CallDeleteInstance(t, {"i1"}, NoFault)
        \/ CallUpsertData(t, {"i1"}, {"k1"}, {JsNumber(<<"8">>)}, NoFault)
        \/ CallGetData(t, {"i1"})
        \/ CallGetDataValue(t, {"i1"}, {"k1"})
        \/ CallDeleteDataValue(t, {"i1"}, {"k1"}, NoFault)
        \/ CallGetFullCharacter(t, {"c1"})
        \/ CallGetFullInstance(t, {"i1"})
        \/ CallClearInstanceData(t, {"i1"}, NoFault)
        \/ Resume
        \/ WriteFileDone(t)
        \/ WriteFileFails(t)
SpecClose == Init /\ [][NextClose]_vars

\* the data bag and its codec
NextData ==
    \E t \in Tasks :
        \/ CallUpsertData(t, {"i1", "i2"}, {"k1"}, DataValues, NoFault)
        \/ CallGetDataValue(t, {"i1", "i2"}, {"k1"})
        \/ CallGetData(t, {"i1"})
        \/ CallDeleteDataValue(t, {"i1"}, {"k1"}, NoFault)
        \/ Resume
        \/ WriteFileDone(t)
SpecData == Init /\ [][NextData]_vars

\* names and timestamps under upserts, as time passes
NextUpserts ==
    \E t \in Tasks :
        \/ CallUpsertCharacter(t, {"c1"}, NameArgs, NoFault)
        \/ CallUpsertInstance(t, {"i1"}, {"c1"}, {"n2", JsUndefined}, NoFault)
        \/ CallDeleteCharacter(t, {"c1"}, NoFault)
        \/ Resume
        \/ WriteFileDone(t)
        \/ Tick
SpecUpserts == Init /\ [][NextUpserts]_vars

\* upserts and deletes as time passes; the names play no part
NextTimes ==
    \E t \in Tasks :
        \/ CallUpsertCharacter(t, {"c1"}, {JsUndefined}, NoFault)
        \/ CallUpsertInstance(t, {"i1"}, {"c1"}, {JsUndefined}, NoFault)
        \/ CallDeleteCharacter(t, {"c1"}, NoFault)
        \/ Resume
        \/ WriteFileDone(t)
        \/ Tick
SpecTimes == Init /\ [][NextTimes]_vars

\* the data bag of an instance, written, cleared and deleted
NextBag ==
    \E t \in Tasks :
        \/ CallClearInstanceData(t, {"i1", "i2"}, {0, 1})
        \/ CallUpsertData(t, {"i2"}, {"k1"}, {JsNumber(<<"8">>)}, NoFault)
        \/ CallDeleteInstance(t, {"i1"}, NoFault)
        \/ Resume
        \/ WriteFileDone(t)
        \/ WriteFileFails(t)
SpecBag == Init /\ [][NextBag]_vars

\* upserts with and without the ids they require, on an open and on a
\* closed Store
NextArgs ==
    \E t \in Tasks :
        \/ CallUpsertCharacter(t, IdArgs({"c2"}), {"n2"}, NoFault)
        \/ CallUpsertInstance(t, IdArgs({"i2"}), IdArgs({"c1"}), {JsUndefined}, NoFault)
        \/ CallUpsertData(t, IdArgs({"i1"}), IdArgs({"k1"}), {JsNumber(<<"8">>)}, NoFault)
        \/ CallClose(t)
        \/ Resume
        \/ WriteFileDone(t)
SpecArgs == Init /\ [][NextArgs]_vars

\* ----------------------------------------------------------- properties

\* the call of k has settled and no other call was in flight during it
Sequential(k) == k.pc = "done" /\ ~k.overlapped
Returned(k)   == k.pc = "done" /\ k.res.tag = "return"
Gives(out, v) == out.res.tag = "return" /\ out.res.val = v
SameResult(x, y) == x.tag = y.tag /\ x.val = y.val
IdArg(id)  == Args(id, "", "", "", NoValue)
CidArg(id) == Args("", id, "", "", NoValue)
KeyArg(id, k) == Args(id, "", k, "", NoValue)

\* C1: once deleteCharacter(id) has returned true (no other call in flight
\* meanwhile), on the Store it leaves getCharacter(id) gives null,
\* getInstancesByCharacter(id) gives no instance, and getData(i) gives the
\* empty mapping for every instance i the character owned when deleteCharacter
\* was called.
C1_DeleteCharacterCascades ==
    \A t \in Tasks :
        LET k == tasks[t] IN
        (Sequential(k) /\ k.op = "deleteCharacter" /\ Returned(k) /\ k.res.val = TRUE)
        => /\ Gives(Alone("getCharacter", k.post, IdArg(k.a.id), 0), {})
           /\ Gives(Alone("getInstancesByCharacter", k.post, CidArg(k.a.id), 0), {})
           /\ \A i \in InstancesOf(k.pre.db, k.a.id) :
                 Gives(Alone("getData", k.post, IdArg(i), 0), << >>)

\* a character that owned instances with data has been deleted
C1_Deleted ==
    \E t \in Tasks :
        LET k == tasks[t] IN
        /\ Sequential(k) /\ k.op = "deleteCharacter" /\ Returned(k) /\ k.res.val = TRUE
        /\ \E i \in InstancesOf(k.pre.db, k.a.id) : DataKeysOf(k.pre.db, i) # {}

\* C2: when a physical write of a multi-write operation fails (the operation
\* throws the engine's or the file system's error), the rows of the Store
\* are those of before the operation.
MultiWrite ==
    {"deleteCharacter", "deleteInstance", "upsertCharacter", "upsertInstance",
     "clearInstanceData"}
WriteFailed(k) ==
    k.pc = "done" /\ k.res.tag = "throw" /\ k.res.val \in {ErrEngine, ErrWriteFile}
C2_FailedWriteReverts ==
    \A t \in Tasks :
        LET k == tasks[t] IN
        (Sequential(k) /\ k.op \in MultiWrite /\ WriteFailed(k))
        => k.post.db = k.pre.db

\* C3: a read that returns gives what the same read gives on one of the
\* databases there were, between two operations' writes, while it was in
\* flight: the state before or after each overlapping operation, never a
\* mixture.
ReadOps ==
    {"getCharacter", "getInstance", "getInstancesByCharacter", "getData",
     "getFullCharacter", "getFullInstance"}
C3_ReadsSeeWholeOperations ==
    \A t \in Tasks :
        LET k == tasks[t] IN
        (Returned(k) /\ k.op \in ReadOps)
        => \E d \in k.seen :
              SameResult(Alone(k.op, Store(d, TRUE), k.a, 0).res, k.res)

\* C4: when the first two calls of a behaviour, made by two callers, have
\* settled, their results and the rows of the Store are those of running
\* the two one at a time, in one order or the other, from the Store the first
\* was called on.
Other(t) == CHOOSE u \in Tasks : u # t
SecondGives(u, second) ==
    /\ SameResult(second.res, tasks[u].res)
    /\ second.db = db
FirstGives(t, u, first) ==
    /\ SameResult(first.res, tasks[t].res)
    /\ SecondGives(u, Alone(tasks[u].op, Store(first.db, first.open), tasks[u].a, tasks[u].now))
SerialRun(t, u) ==
    FirstGives(t, u, Alone(tasks[t].op, tasks[t].pre, tasks[t].a, tasks[t].now))
C4_Serializable ==
    \A t \in Tasks :
        (/\ tasks[t].pc = "done" /\ tasks[t].seq = 1
         /\ tasks[Other(t)].pc = "done" /\ tasks[Other(t)].seq = 2)
        => SerialRun(t, Other(t)) \/ SerialRun(Other(t), t)

\* C5: deleteCharacter(id) on an open Store that has no character id (no
\* other call in flight meanwhile) changes neither the rows nor the file, and
\* returns false unless the engine fails.
C5_DeleteAbsentCharacter ==
    \A t \in Tasks :
        LET k == tasks[t] IN
        (/\ Sequential(k) /\ k.op = "deleteCharacter" /\ k.pre.open
         /\ k.a.id # "" /\ ~HasCharacter(k.pre.db, k.a.id))
        => /\ k.post.db = k.pre.db
           /\ k.postFile = k.preFile
           /\ k.res.tag = "return" => k.res.val = FALSE
           /\ k.fault = 0 => k.res.tag = "return"

\* C6: a call made after a close() has completed, of any operation but
\* close, throws a closed-database error and changes neither the rows nor
\* the file.
C6_ClosedStoreRejects ==
    \A t \in Tasks :
        LET k == tasks[t] IN
        (k.pc = "done" /\ k.afterClose /\ k.op # "close")
        => /\ k.res.tag = "throw"
           /\ k.res.val \in {ErrClosed, ErrNotOpen}
           /\ k.post.db = k.pre.db
           /\ k.postFile = k.preFile

\* C7: upsertInstance with valid ids on an open Store that has no character
\* characterId (no other call in flight meanwhile) throws and leaves the rows
\* as they were.
C7_InstanceNeedsCharacter ==
    \A t \in Tasks :
        LET k == tasks[t] IN
        (/\ Sequential(k) /\ k.op = "upsertInstance" /\ k.pre.open
         /\ k.a.id # "" /\ k.a.cid # "" /\ ~HasCharacter(k.pre.db, k.a.cid))
        => /\ k.res.tag = "throw"
           /\ k.post.db = k.pre.db

\* C8: after upsertData(instanceId, key, v) has returned (no other call in
\* flight meanwhile), getDataValue(instanceId, key) on the Store it leaves
\* gives v.
C8_DataRoundTrip ==
    \A t \in Tasks :
        LET k == tasks[t] IN
        (Sequential(k) /\ k.op = "upsertData" /\ Returned(k))
        => Gives(Alone("getDataValue", k.post, KeyArg(k.a.id, k.a.key), 0), {k.a.value})

\* C9: after upsertCharacter({id, name}) has returned (no other call in
\* flight meanwhile), getCharacter(id) gives a row whose name is the name of
\* the call when it supplied one, and otherwise the name the row had before
\* (null for a new row): by induction, the last name supplied.
NameBefore(d, id) == IF HasCharacter(d, id) THEN d.characters[id].name ELSE SqlNull
C9_NameIsLastSupplied ==
    \A t \in Tasks :
        LET k == tasks[t] IN
        (Sequential(k) /\ k.op = "upsertCharacter" /\ Returned(k))
        => LET got == Alone("getCharacter", k.post, IdArg(k.a.id), 0) IN
           /\ got.res.tag = "return"
           /\ \E row \in got.res.val :
                 row.name = IF k.a.name # JsUndefined THEN k.a.name
                            ELSE NameBefore(k.pre.db, k.a.id)

\* C10: every character and instance row has updatedAt >= createdAt; and an
\* upsert that has returned (no other call in flight meanwhile) leaves on its
\* row the createdAt the row had before, or the time of the call for a new
\* row, and the time of the call as updatedAt.
RowsOf(k, d) == IF k.op = "upsertCharacter" THEN d.characters ELSE d.instances
C10_Timestamps ==
    /\ \A c \in DOMAIN db.characters :
          db.characters[c].updatedAt >= db.characters[c].createdAt
    /\ \A i \in DOMAIN db.instances :
          db.instances[i].updatedAt >= db.instances[i].createdAt
    /\ \A t \in Tasks :
          LET k == tasks[t] IN
          (/\ Sequential(k) /\ k.op \in {"upsertCharacter", "upsertInstance"}
           /\ Returned(k) /\ k.a.id \in DOMAIN RowsOf(k, k.post.db))
          => /\ RowsOf(k, k.post.db)[k.a.id].updatedAt = k.now
             /\ RowsOf(k, k.post.db)[k.a.id].createdAt =
                   IF k.a.id \in DOMAIN RowsOf(k, k.pre.db)
                   THEN RowsOf(k, k.pre.db)[k.a.id].createdAt ELSE k.now

\* an upsert has updated a row created at an earlier time
C10_Updated ==
    \E t \in Tasks :
        LET k == tasks[t] IN
        /\ Sequential(k) /\ k.op \in {"upsertCharacter", "upsertInstance"}
        /\ Returned(k) /\ k.a.id \in DOMAIN RowsOf(k, k.pre.db)
        /\ k.a.id \in DOMAIN RowsOf(k, k.post.db)
        /\ RowsOf(k, k.pre.db)[k.a.id].createdAt < k.now

\* C11: the data table holds one row at most for a pair (instanceId, key):
\* after upsertData(instanceId, key, v) has returned (no other call in flight
\* meanwhile) the pair has its row, the row holds the text written for v, and
\* every other row is as it was before the call.
OtherData(d, iid, k) == [p \in DOMAIN d.data \ {<<iid, k>>} |-> d.data[p]]
C11_DataRowIsLastWritten ==
    \A t \in Tasks :
        LET k == tasks[t] IN
        (Sequential(k) /\ k.op = "upsertData" /\ Returned(k))
        => /\ HasData(k.post.db, k.a.id, k.a.key)
           /\ k.post.db.data[<<k.a.id, k.a.key>>].value = Encode(k.a.value)
           /\ OtherData(k.post.db, k.a.id, k.a.key) = OtherData(k.pre.db, k.a.id, k.a.key)

\* upsertData has replaced a row that held another text
C11_Replaced ==
    \E t \in Tasks :
        LET k == tasks[t] IN
        /\ Sequential(k) /\ k.op = "upsertData" /\ Returned(k)
        /\ HasData(k.pre.db, k.a.id, k.a.key)
        /\ k.pre.db.data[<<k.a.id, k.a.key>>].value # Encode(k.a.value)

\* C12: on an open Store, getDataValue(instanceId, key) for a pair that has
\* no row gives undefined, getData(instanceId) for an instance id that has no
\* rows gives the empty mapping, and neither changes a row (no other call in
\* flight meanwhile).
MissingValue(k) ==
    /\ k.op = "getDataValue" /\ k.a.id # "" /\ k.a.key # ""
    /\ ~HasData(k.pre.db, k.a.id, k.a.key)
MissingBag(k) == k.op = "getData" /\ DataKeysOf(k.pre.db, k.a.id) = {}
C12_MissingDataReads ==
    \A t \in Tasks :
        LET k == tasks[t] IN
        (Sequential(k) /\ k.pre.open)
        => /\ MissingValue(k) => (k.res = Return({}) /\ k.post.db = k.pre.db)
           /\ MissingBag(k) => (k.res = Return(<< >>) /\ k.post.db = k.pre.db)

\* both reads have been made of data that is not there
C12_ReadMissing ==
    \E t, u \in Tasks :
        /\ Sequential(tasks[t]) /\ tasks[t].pre.open /\ MissingValue(tasks[t])
        /\ Sequential(tasks[u]) /\ tasks[u].pre.open /\ MissingBag(tasks[u])

\* C13: deleteInstance(id) that returns on an open Store (no other call in
\* flight meanwhile) returns true exactly when the Store had an instance id;
\* after true, getInstance(id) gives null and getData(id) the empty mapping;
\* the characters, the other instances and the data of the other instances
\* are as they were.
OtherInstances(d, id) == [i \in DOMAIN d.instances \ {id} |-> d.instances[i]]
DataOfOthers(d, id) == [p \in DOMAIN d.data \ DataKeysOf(d, id) |-> d.data[p]]
C13_DeleteInstance ==
    \A t \in Tasks :
        LET k == tasks[t] IN
        (/\ Sequential(k) /\ k.op = "deleteInstance" /\ k.pre.open
         /\ k.a.id # "" /\ Returned(k))
        => /\ k.res.val = HasInstance(k.pre.db, k.a.id)
           /\ k.res.val = TRUE =>
                 /\ Gives(Alone("getInstance", k.post, IdArg(k.a.id), 0), {})
                 /\ Gives(Alone("getData", k.post, IdArg(k.a.id), 0), << >>)
           /\ k.post.db.characters = k.pre.db.characters
           /\ OtherInstances(k.post.db, k.a.id) = OtherInstances(k.pre.db, k.a.id)
           /\ DataOfOthers(k.post.db, k.a.id) = DataOfOthers(k.pre.db, k.a.id)

\* C14: deleteDataValue(instanceId, key) that returns on an open Store (no
\* other call in flight meanwhile) returns true exactly when the pair had a
\* row, whatever the row held; afterwards the pair has no row and every other
\* row is as it was.
C14_DeleteDataValue ==
    \A t \in Tasks :
        LET k == tasks[t] IN
        (/\ Sequential(k) /\ k.op = "deleteDataValue" /\ k.pre.open
         /\ k.a.id # "" /\ k.a.key # "" /\ Returned(k))
        => /\ k.res.val = HasData(k.pre.db, k.a.id, k.a.key)
           /\ ~HasData(k.post.db, k.a.id, k.a.key)
           /\ OtherData(k.post.db, k.a.id, k.a.key) = OtherData(k.pre.db, k.a.id, k.a.key)
           /\ k.post.db.characters = k.pre.db.characters
           /\ k.post.db.instances = k.pre.db.instances

\* C15: clearInstanceData(instanceId) that returns on an open Store (no other
\* call in flight meanwhile) returns false exactly when the instance had no
\* data row; afterwards getData(instanceId) gives the empty mapping, and the
\* characters, the instances and the data of other instances are as they
\* were.
C15_ClearInstanceData ==
    \A t \in Tasks :
        LET k == tasks[t] IN
        (/\ Sequential(k) /\ k.op = "clearInstanceData" /\ k.pre.open
         /\ k.a.id # "" /\ Returned(k))
        => /\ k.res.val = (DataKeysOf(k.pre.db, k.a.id) # {})
           /\ Gives(Alone("getData", k.post, IdArg(k.a.id), 0), << >>)
           /\ DataOfOthers(k.post.db, k.a.id) = DataOfOthers(k.pre.db, k.a.id)
           /\ k.post.db.characters = k.pre.db.characters
           /\ k.post.db.instances = k.pre.db.instances

\* an instance's data has been cleared beside the data of another instance,
\* and a clear has found nothing to delete
C15_Cleared ==
    \E t, u \in Tasks :
        /\ Sequential(tasks[t]) /\ tasks[t].op = "clearInstanceData"
        /\ Returned(tasks[t]) /\ tasks[t].res.val = TRUE
        /\ DOMAIN DataOfOthers(tasks[t].pre.db, tasks[t].a.id) # {}
        /\ Sequential(tasks[u]) /\ tasks[u].op = "clearInstanceData"
        /\ Returned(tasks[u]) /\ tasks[u].res.val = FALSE

\* C16: upsertCharacter with an empty id, upsertInstance with an empty id or
\* an empty characterId, and upsertData with an empty instanceId or an empty
\* key throw, and leave the rows and the file as they were.
EmptyArgument(k) ==
    \/ k.op = "upsertCharacter" /\ k.a.id = ""
    \/ k.op = "upsertInstance" /\ (k.a.id = "" \/ k.a.cid = "")
    \/ k.op = "upsertData" /\ (k.a.id = "" \/ k.a.key = "")
C16_EmptyIdsRejected ==
    \A t \in Tasks :
        LET k == tasks[t] IN
        (k.pc \in {"micro", "io", "done"} /\ EmptyArgument(k))
        => /\ k.pc = "done"
           /\ k.res.tag = "throw"
           /\ k.post.db = k.pre.db
           /\ k.postFile = k.preFile

\* two upserts of different kinds have been refused for an empty argument,
\* one of them for its second argument alone
C16_Refused ==
    \E t, u \in Tasks :
        /\ tasks[t].pc = "done" /\ tasks[t].op = "upsertInstance"
        /\ tasks[t].a.id # "" /\ tasks[t].a.cid = "" /\ tasks[t].pre.open
        /\ tasks[u].pc = "done" /\ tasks[u].op \in {"upsertCharacter", "upsertData"}
        /\ EmptyArgument(tasks[u]) /\ tasks[u].pre.open

\* ---- the Registry
\* A call of the Registry that has returned and that no other call of a
\* caller overlapped.
RegDone(k, ops) == k.pc = "done" /\ k.op \in ops /\ ~k.overlapped

\* C17: when register(id) completes for an id that was registered already,
\* the Store registered before is closed, get(id) returns the Store the call
\* supplied (or created), and that Store is open.
C17_ReRegisterClosesPrevious ==
    \A t \in RegCallers :
        (RegDone(rcalls[t], {"register", "registerWith"}) /\ rcalls[t].prev # NoStore)
        => /\ ~rcalls[t].post.prevOpen
           /\ rcalls[t].post.got = rcalls[t].mine
           /\ rcalls[t].post.gotOpen

\* C18: when deregister(id) completes for a registered id, get(id) returns
\* null and the cross-extension reads of the id give the neutral value; the
\* Registry has not called close() on the Store it removed, whose handle is
\* as it was.
C18_DeregisterLeavesStoreOpen ==
    \A t \in RegCallers :
        (RegDone(rcalls[t], {"deregister"}) /\ rcalls[t].prev # NoStore)
        => /\ rcalls[t].post.got = NoStore
           /\ rcalls[t].post.view = Return({})
           /\ rcalls[t].tried = << >>
           /\ rcalls[t].post.prevOpen = rcalls[t].prevWasOpen

\* C19: closeAll() never throws; when it completes it has called close() on
\* the Store of every entry the Registry held, also after a close() that
\* failed, and the Map is empty; on an empty Registry it closes nothing and
\* the Map stays empty.
Tried(k) == {k.tried[n] : n \in 1..Len(k.tried)}
C19_CloseAllClosesEvery ==
    \A t \in RegCallers :
        /\ rcalls[t].op = "closeAll" => rcalls[t].pc # "threw"
        /\ RegDone(rcalls[t], {"closeAll"})
           => /\ rcalls[t].begun \subseteq Tried(rcalls[t])
              /\ rcalls[t].begun = {} => rcalls[t].tried = << >>
              /\ rcalls[t].post.size = 0
              /\ \A h \in Tried(rcalls[t]) \ rcalls[t].failed : ~stores[h].open

\* a closeAll() of two Stores has completed, the close() of the first failed
C19_ClosedAfterFailure ==
    \E t \in RegCallers :
        /\ RegDone(rcalls[t], {"closeAll"})
        /\ Len(rcalls[t].tried) = 2
        /\ rcalls[t].tried[1] \in rcalls[t].failed
        /\ rcalls[t].tried[2] \notin rcalls[t].failed

\* C20: Stores of different validated extension ids have different backing
\* files, and a step that writes through a Store changes no read through a
\* Store of another extension id.
DifferentFiles ==
    \A h \in Handles, g \in Handles :
        stores[h].id # stores[g].id => stores[h].path # stores[g].path
WriteStaysInside ==
    rhist'.wrote # NoStore
    => \A g \in Handles :
          stores[g].id # stores[rhist'.wrote].id
          => ReadOf(stores', disk', g) = ReadOf(stores, disk, g)
C20_StoresAreIsolated == []DifferentFiles /\ [][WriteStaysInside]_vars

\* a write through a Store while a Store of another extension holds a row
C20_WroteBesideAnother ==
    /\ rhist.wrote # NoStore
    /\ \E g \in Handles :
          /\ stores[g].id # stores[rhist.wrote].id
          /\ ReadOf(stores, disk, g) # EmptyDb
          /\ ReadOf(stores, disk, rhist.wrote) # ReadOf(stores, disk, g)

\* C21: the backing file of every Store is db/<validated extension id>.db
\* under the working directory, also when the caller supplied a path to the
\* constructor or in the body of the registration request.
FileOfExtension(id) == <<"db", "/">> \o id \o <<".", "d", "b">>
NeutralValue(op) ==
    IF op = "getData" THEN Return(<< >>) ELSE Return({})
StoreGives(op, h, a) == Alone(op, StoreOn(stores, disk, h), a, 0).res
ViewGave(k) ==
    IF MapGet(registry, k.id) = NoStore THEN k.result = NeutralValue(k.op)
    ELSE k.result = StoreGives(k.op, MapGet(registry, k.id), k.a)
Lookups == ViewOps \cup {"getDbManager"}
MapChangers == {"register", "registerWith", "POST /register", "deregister", "closeAll"}
StepOf(t) == rhist'.actor = t /\ (rhist' # rhist \/ rcalls'[t] # rcalls[t])
RowsKept ==
    /\ Len(stores') = Len(stores)
    /\ \A h \in Handles :
        /\ ReadOf(stores', disk', h) = ReadOf(stores, disk, h)
        /\ stores'[h].open = stores[h].open
    /\ disk' = disk
LookupLeavesAll ==
    \A t \in RegCallers :
        (StepOf(t) /\ rcalls'[t].op \in Lookups) => (registry' = registry /\ RowsKept)
MapChangesInside ==
    registry' # registry =>
        \E t \in RegCallers : StepOf(t) /\ rcalls'[t].op \in MapChangers
C23_LookupsChangeNothing == [][LookupLeavesAll /\ MapChangesInside]_vars
\* a read of the view has returned a registered Store's rows
C23_ReadRegisteredRows ==
    \E t \in RegCallers :
        /\ rhist.actor = t /\ rcalls[t].op = "getAllCharacters" /\ rcalls[t].pc = "done"
        /\ MapGet(registry, rcalls[t].id) # NoStore
        /\ rcalls[t].result.tag = "return" /\ rcalls[t].result.val # {}
\* C24: a call of a Store in which the backing store failed (the engine
\* rejected the first statement of a write, or the fs.writeFile of a flush, the
\* one of close() included, was rejected) throws to its caller.
EngineFailed(k) ==
    /\ k.fault = 1
    /\ k.op \in {"upsertCharacter", "deleteCharacter", "upsertInstance", "upsertData"}
C24_FailuresPropagate ==
    \A t \in Tasks :
        (tasks[t].pc = "done" /\ (tasks[t].failed \/ EngineFailed(tasks[t])))
        => tasks[t].res.tag = "throw"
\* C25: isOpen() gives true until a close() of the Store has completed and false
\* ever after (so a closed Store is never open again), and every close(), a
\* second one included, returns.
C25_IsOpenUntilClosed ==
    /\ isOpen(Store(db, open)) = ~closed
    /\ \A t \in Tasks :
        (tasks[t].pc = "done" /\ tasks[t].op = "close") => tasks[t].res.tag = "return"
\* C26: what sanitizeExtensionId returns holds none of the characters
\* < > : " / \ | ? *, neither ../ nor ..\ as a substring, and at most 255
\* characters.
Contains(s, pat) ==
    \E n \in 1..Len(s) : n + Len(pat) - 1 <= Len(s) /\ SubSeq(s, n, n + Len(pat) - 1) = pat
SafeId(s) ==
    /\ \A n \in 1..Len(s) : s[n] \notin ReservedChars
    /\ ~Contains(s, <<".", ".", "/">>)
    /\ ~Contains(s, <<".", ".", "\\">>)
    /\ Len(s) <= MaxIdLength
C26_SanitizedIsSafe == (idcall.pc = "sanitized" /\ idcall.out.ok) => SafeId(idcall.out.id)
\* a string longer than 255 characters with a traversal and a reserved
\* character has been sanitized
C26_SanitizedUnsafe ==
    /\ idcall.pc = "sanitized" /\ idcall.out.ok
    /\ Len(idcall.x) > MaxIdLength
    /\ Contains(idcall.x, <<".", ".", "/">>)
    /\ Contains(idcall.x, <<"<">>)

\* C27: sanitizeExtensionId applied to a string it returned returns that string.
C27_SanitizeIdempotent == idcall.pc = "twice" => idcall.again = idcall.out
\* a string the sanitizer changed has been sanitized twice
C27_SanitizedTwice == idcall.pc = "twice" /\ idcall.out.id # idcall.x /\ idcall.again.ok

\* C28 (as stated): validateExtensionId throws for a string that is empty, is
\* only whitespace, begins with a dot once sanitized and trimmed, or is longer
\* than 255 characters.
Blank(s) == \A n \in 1..Len(s) : s[n] \in Whitespace
Dotted(build, s) ==
    /\ sanitize(build, s).ok
    /\ Trim(sanitize(build, s).id) # << >>
    /\ Head(Trim(sanitize(build, s).id)) = "."
C28_ValidateRejects ==
    (/\ idcall.pc = "validated"
     /\ (Blank(idcall.x) \/ Dotted(idcall.build, idcall.x) \/ Len(idcall.x) > MaxIdLength))
    => ~idcall.out.ok
\* C28 (amended): validateExtensionId throws for a string that is empty, is
\* only whitespace, or begins with a dot once sanitized and trimmed; a string
\* longer than 255 characters (without traversal sequences) is validated as
\* its first 255 characters are.
C28_ValidateRejectsOrCuts ==
    idcall.pc = "validated" =>
        /\ (Blank(idcall.x) \/ Dotted(idcall.build, idcall.x)) => ~idcall.out.ok
        /\ (/\ Len(idcall.x) > MaxIdLength
            /\ ~Contains(idcall.x, <<".", ".", "/">>)
            /\ ~Contains(idcall.x, <<".", ".", "\\">>))
           => idcall.out = validate(idcall.build, SubSeq(idcall.x, 1, MaxIdLength))
\* a string of more than 255 characters has been accepted
C28_OverlongAccepted ==
    idcall.pc = "validated" /\ Len(idcall.x) > MaxIdLength /\ idcall.out.ok

\* C29: validateExtensionId returns unchanged a string of 1 to 255 characters
\* that isValidId admits; whatever else it accepts it returns sanitized and
\* trimmed, "../dangerous/path" as "dangerous_path".
C29_ValidIdVerbatim ==
    idcall.pc = "validated" =>
        /\ (isValidId(idcall.x) /\ Len(idcall.x) <= MaxIdLength) => idcall.out = IdReturned(idcall.x)
        /\ idcall.out.ok => idcall.out.id = Trim(sanitize(idcall.build, idcall.x).id)
        /\ idcall.x = Dangerous => idcall.out = IdReturned(DangerousPath)
\* an id of 255 characters that isValidId admits has been validated
C29_ValidatedLongest ==
    idcall.pc = "validated" /\ isValidId(idcall.x) /\ Len(idcall.x) = MaxIdLength
\* C30: an endpoint on an extension's own data called without the header
\* x-extension-id, or with one that is not of letters, digits, '_' and '-',
\* answers 400 and calls no Store.
C30_BadHeaderRefused ==
    \A t \in RegCallers :
        (/\ rcalls[t].pc = "done"
         /\ rcalls[t].op \in OwnEndpoints
         /\ ~isValidId(rcalls[t].id))
        => (rcalls[t].status = 400 /\ rcalls[t].mine = NoStore)
\* C34: sanitizeExtensionId removes ../ and ..\ until none is left and only
\* then replaces the reserved characters, so a string that is nothing but
\* nested traversal sequences, "....//" for one, is rejected.
OnlyTraversal(s) == s # << >> /\ RemoveTraversal(s) = << >>
C34_NestedTraversalFails ==
    idcall.pc = "sanitized" =>
        /\ OnlyTraversal(idcall.x) => ~idcall.out.ok
        /\ idcall.out.ok =>
               idcall.out.id = Truncate(ReplaceReserved(RemoveTraversal(idcall.x)))
\* C35: when an operation that writes throws because fs.writeFile of its
\* flush was rejected (no other call in flight meanwhile), the rows in memory
\* are those of before the operation.
C35_FailedFlushInvisible ==
    \A t \in Tasks :
        (Sequential(tasks[t]) /\ tasks[t].failed /\ tasks[t].res.tag = "throw")
        => tasks[t].post.db = tasks[t].pre.db
\* C36: in every state of a Store, whatever upserts, deletes and clears have
\* run or are running, each data row belongs to an instance row that exists.
Orphans(d) == {r \in DOMAIN d.data : ~HasInstance(d, r[1])}
C36_DataHasInstance == Orphans(db) = {}
\* C37: with no call of the Registry in flight, and no holder having closed a
\* Store itself, every Store the Map holds (what getDbManager returns) is open.
Quiet == \A t \in RegCallers : rcalls[t].pc \in {"idle", "done"}
C37_RegisteredStoresOpen ==
    Quiet => \A h \in Registered(registry) : h # NoStore => stores[h].open
\* C38: when two register calls for one id that overlapped have both
\* completed, the Map holds a Store for the id and every other Store of that id
\* is closed.
BothRegistered(t, u) ==
    /\ t # u
    /\ rcalls[t].pc = "done" /\ rcalls[t].op = "register"
    /\ rcalls[u].pc = "done" /\ rcalls[u].op = "register"
    /\ rcalls[t].overlapped /\ rcalls[u].overlapped
    /\ rcalls[t].id = rcalls[u].id
C38_OverlappingRegistersLeaveOne ==
    \A t, u \in RegCallers :
        BothRegistered(t, u)
        => /\ MapGet(registry, rcalls[t].id) # NoStore
           /\ \A h \in Handles :
                (stores[h].id = rcalls[t].id /\ h # MapGet(registry, rcalls[t].id))
                => ~stores[h].open
\* C39: when no call of the Store is in flight and the calls made have
\* returned, the backing file holds the rows the Store holds in memory, in
\* whatever order the writes of overlapping flushes finished.
Settled == \A t \in Tasks : tasks[t].pc = "idle" \/ Returned(tasks[t])
C39_FileEqualsMemory == Settled => file = db
\* The bag of instance id in rows d, as getData gives it, and the mapping
\* of a body's entries.
BagOf(d, id) == SelectData(d, id)
KeysOf(entries) == {entries[n][1] : n \in 1..Len(entries)}
MappingOf(entries) ==
    [key \in KeysOf(entries) |->
        entries[CHOOSE n \in 1..Len(entries) : entries[n][1] = key][2]]
Answered(k, endpoint) == k.pc = "done" /\ k.op = endpoint /\ k.status = 200

\* C31: after a PUT /instances/:id/data/override answered with success, the
\* bag of the instance is the body's mapping: its keys with its values and
\* no other key (the empty bag for an empty mapping).
C31_OverrideGivesMapping ==
    \A t \in RegCallers :
        Answered(rcalls[t], "PUT /instances/:id/data/override")
        => BagOf(rcalls[t].after, rcalls[t].a.id) = MappingOf(rcalls[t].body.entries)

\* C32: after a PUT /instances/:id/data/merge answered with success, every
\* key of the body's mapping holds the mapping's value and every other key
\* of the bag holds the value it held before; no other key is there.
Merged(bag, m) ==
    [key \in DOMAIN bag \cup DOMAIN m |-> IF key \in DOMAIN m THEN m[key] ELSE bag[key]]
C32_MergeKeepsOthers ==
    \A t \in RegCallers :
        Answered(rcalls[t], "PUT /instances/:id/data/merge")
        => BagOf(rcalls[t].after, rcalls[t].a.id)
             = Merged(BagOf(rcalls[t].before, rcalls[t].a.id),
                      MappingOf(rcalls[t].body.entries))

\* C33: PUT /instances/:id/data/remove removes the listed keys the bag
\* holds and no other, answers with removedCount the number of keys it
\* removed, and answers 200 with removedCount 0 when the bag holds none of
\* the listed keys.
Listed(k) == {k.body.list[n] : n \in 1..Len(k.body.list)}
Held(k) == DOMAIN BagOf(k.before, k.a.id)
ReachedStore(k) ==
    k.pc = "done" /\ k.op = "PUT /instances/:id/data/remove"
        /\ k.status \in {200, 500} /\ k.prevWasOpen
C33_RemoveListedKeys ==
    \A t \in RegCallers :
        /\ Answered(rcalls[t], "PUT /instances/:id/data/remove")
           => /\ BagOf(rcalls[t].after, rcalls[t].a.id)
                   = Without(BagOf(rcalls[t].before, rcalls[t].a.id), Listed(rcalls[t]))
              /\ rcalls[t].result.val = Cardinality(Held(rcalls[t]) \cap Listed(rcalls[t]))
        /\ (ReachedStore(rcalls[t]) /\ Held(rcalls[t]) \cap Listed(rcalls[t]) = {})
           => (rcalls[t].status = 200 /\ rcalls[t].result.val = 0)
\* C40: a read of the bag of an instance made while a request to override
\* that bag is being handled gives the bag as it was when the request
\* began, or the mapping of the request.
ReadsBeside(u, t) ==
    /\ tasks[t].req.pc = "running"
    /\ Returned(tasks[u]) /\ tasks[u].op = "getData"
    /\ tasks[u].a.id = tasks[t].req.id
    /\ tasks[u].seq > tasks[t].req.seq
C40_ReadSeesBeforeOrMapping ==
    \A t, u \in Tasks :
        ReadsBeside(u, t)
        => tasks[u].res.val \in { BagOf(tasks[t].req.before, tasks[t].req.id),
                                  MappingOf(tasks[t].req.entries) }
====
